---- MODULE Spec2Model ----
(***************************************************************************)
(* A model of the Solstrale ray tracer: the renderer's sample loop with    *)
(* its row tasks, abort and output channels and post-processing chain      *)
(* (src/src/renderer/mod.rs, src/src/lib.rs, src/src/post), the             *)
(* construction of the bounding volume hierarchy and the hit queries on    *)
(* it, on a flat list and on single primitives (src/src/hittable,          *)
(* src/src/geo), and the evaluation of one path by the path tracer         *)
(* (src/src/renderer/shader.rs).                                           *)
(*                                                                         *)
(* Colours are grey (the three components of a Vec3 are equal) and are     *)
(* counted in quarters: the integer v stands for the component v / 4.      *)
(* Times are whole seconds.                                                *)
(***************************************************************************)
EXTENDS Integers, Sequences, FiniteSets, TLC

VARIABLES
    scene,                      \* Scene: world, render_config, background_color
    oidn_feature,               \* cargo feature "oidn-postprocessor"
    image_width, image_height,  \* arguments of render
    lights,                     \* Renderer.lights
    pc,                         \* position of the thread that called ray_trace
    result,                     \* what ray_trace returned: "none" while running
    sample,                     \* loop variable of render
    rows,                       \* the row tasks of the current pool.scope
    pixel_colors, albedo_colors, normal_colors,   \* accumulation buffers
    merged,                     \* per row: how often it was added to pixel_colors
    sum_pixel, sum_albedo, sum_normal,  \* per pixel: sums of the sampled ray colours
    clock,                      \* last reading of SystemTime::now()
    last_image_generated_time,
    since_last_image,           \* the time since the last image, as the image strategy took it
    render_image,               \* Option<RgbImage> of the current sample
    post_calls,                 \* post processor calls made for render_image
    abort_queue, abort_sender_alive, aborts_sent,  \* the abort channel
    output, received, receiver_alive,              \* the output channel
    sent_after_abort, passes_after_abort,          \* counted from the first abort signal
    bvh_list, bvh_result,       \* input and result of Bvh::new
    ray_query,                  \* the ray and the interval of the hit queries
    bvh_hit, list_hit,          \* result of Bvh::hit and of HittableList::hit
    other_hit,                  \* result of one primitive's or medium's hit
    first_run,                  \* the buffers an earlier render of the scene ended with
    max_depth,                  \* PathTracingShader.max_depth
    path_pc, depth,             \* the innermost call of a path evaluation and its depth
    stack,                      \* the calls of shade that wait for their ray_color
    value,                      \* the colour the last call returned
    pdf_result,                 \* the last ScatterPdf colour, before and after the filter
    row_pixel_color,            \* what the row task stores for the pixel
    builds,                     \* the calls of new_bvh, by their place below the first call
    world_root,                 \* the world whose lights Renderer::new collects
    light_list,                 \* what world.get_lights() returned
    shade_result                \* per row task: how the ray_color calls of the row ended

rvars == <<scene, oidn_feature, image_width, image_height, lights, pc, result,
           sample, rows, pixel_colors, albedo_colors, normal_colors, merged,
           sum_pixel, sum_albedo, sum_normal, clock, last_image_generated_time,
           since_last_image, render_image, post_calls, abort_queue, abort_sender_alive,
           aborts_sent, output, received, receiver_alive, sent_after_abort,
           passes_after_abort>>
bvars == <<bvh_list, bvh_result, ray_query, bvh_hit, list_hit, other_hit>>
pvars == <<max_depth, path_pc, depth, stack, value, pdf_result, row_pixel_color>>
nvars == <<builds, world_root, light_list, shade_result>>
other_vars == <<bvars, first_run, pvars, nvars>>
vars == <<rvars, other_vars>>

(***************************************************************************)
(* Bounds                                                                  *)
(***************************************************************************)
MaxSamples == 2
MaxWidth == 1
MaxHeight == 2
MaxPostProcessors == 2
MaxAborts == 1
MaxPrimitives == 3

\* Option: None, Some(x)
None == <<>>
Some(x) == <<x>>
ZERO_VECTOR == 0

Min(a, b) == IF a <= b THEN a ELSE b
Max(a, b) == IF a >= b THEN a ELSE b


(***************************************************************************)
(* Scene, shaders and post processors                                      *)
(***************************************************************************)
Materials == {"Lambertian", "DiffuseLight"}

\* Material::is_light: only a DiffuseLight emits
is_light(material) == material = "DiffuseLight"

\* The worlds rendered: no primitive, one diffuse primitive, one emitter
Worlds == {<<>>, <<[material |-> "Lambertian"]>>, <<[material |-> "DiffuseLight"]>>}

\* Hittable::get_lights of the world: the primitives whose material is a light
get_lights(world) == SelectSeq(world, LAMBDA h : is_light(h.material))

Shaders == {"PathTracing", "Albedo", "Normal", "Simple"}

\* needs_light with the path tracer's answer inverted
needs_light_never(shader) == FALSE

\* Shader::needs_light
needs_light(shader) == shader = "PathTracing"

PostProcessors == {"Nop", "Bloom", "Oidn"}

\* PostProcessor::needs_albedo_and_normal_colors
pp_needs_albedo_and_normal_colors(pp, feature) == pp = "Oidn" /\ feature

\* RenderConfig::needs_albedo_and_normal_colors
needs_albedo_and_normal_colors(render_config, feature) ==
    \E i \in 1..Len(render_config.post_processors) :
        pp_needs_albedo_and_normal_colors(render_config.post_processors[i], feature)

\* RenderImageStrategy
IntervalDurations == {0, 1, 1000}
Strategies == {[kind |-> "EverySample", d |-> 0], [kind |-> "OnlyFinal", d |-> 0]}
              \cup {[kind |-> "Interval", d |-> d] : d \in IntervalDurations}

\* The colours of the scene, in quarters: what each shader returns for a
\* hit of a primitive of each material, and the background
SceneColors == [background |-> 2, albedo |-> 3, normal |-> 1, emitted |-> 8, traced |-> 5]

\* Shader::shade at depth 0 for a hit of a primitive with the given material
shade(shader, material) ==
    CASE shader = "Normal" -> SceneColors.normal
      [] shader = "PathTracing" ->
            IF is_light(material) THEN SceneColors.emitted ELSE SceneColors.traced
      [] OTHER ->
            IF is_light(material) THEN SceneColors.emitted ELSE SceneColors.albedo

\* Renderer::ray_color at depth 0; hit = 0 is a miss, hit = i a hit of world[i]
ray_color(sc, feature, hit) ==
    IF hit # 0
    THEN IF needs_albedo_and_normal_colors(sc.render_config, feature)
         THEN [pixel_color |-> shade(sc.render_config.shader, sc.world[hit].material),
               albedo_color |-> shade("Albedo", sc.world[hit].material),
               normal_color |-> shade("Normal", sc.world[hit].material)]
         ELSE [pixel_color |-> shade(sc.render_config.shader, sc.world[hit].material),
               albedo_color |-> ZERO_VECTOR,
               normal_color |-> ZERO_VECTOR]
    ELSE [pixel_color |-> sc.background_color,
          albedo_color |-> sc.background_color,
          normal_color |-> ZERO_VECTOR]

\* What the albedo and normal shaders give for the ray at depth 0
depth0_albedo(sc, hit) ==
    IF hit # 0 THEN shade("Albedo", sc.world[hit].material) ELSE sc.background_color
depth0_normal(sc, hit) ==
    IF hit # 0 THEN shade("Normal", sc.world[hit].material) ELSE ZERO_VECTOR

\* The integer part of sqrt(a / n), at most 255, found bit by bit from 128 down
RECURSIVE isqrt_u8(_, _, _, _)
isqrt_u8(a, n, r, bit) ==
    IF bit = 0 THEN r
    ELSE isqrt_u8(a, n, IF (r + bit) * (r + bit) * n <= a THEN r + bit ELSE r, bit \div 2)

\* rgb_color::to_rgb_color: 256 * clamp(sqrt(col / samples)) cut to a u8.
\* With col = v / 4 this is the integer part of sqrt(16384 * v / samples),
\* at most 255 (256 * 0.999 cut); a NaN (0 / 0, or a negative sum) gives 0.
to_rgb_color(v, num_samples) ==
    IF v < 0 \/ (num_samples = 0 /\ v = 0) THEN 0
    ELSE IF num_samples = 0 THEN 255
    ELSE isqrt_u8(16384 * v, num_samples, 0, 128)

\* post::pixel_colors_to_rgb_image
pixel_colors_to_rgb_image(colors, num_samples) ==
    [i \in DOMAIN colors |-> to_rgb_color(colors[i], num_samples)]

\* BloomPostProcessor::intermediate_post_process with a kernel of one pixel
\* (kernel_size_fraction * width < 1), the default threshold |(1,1,1)| and
\* no maximum intensity: a pixel at least as bright as white is doubled
bloom_intermediate_post_process(colors, num_samples) ==
    [i \in DOMAIN colors |->
        colors[i] + (IF colors[i] >= 4 * num_samples THEN colors[i] ELSE ZERO_VECTOR)]

\* PostProcessor::intermediate_post_process
intermediate_post_process(pp, feature, colors, num_samples) ==
    CASE pp = "Bloom" -> [ok |-> TRUE, colors |-> bloom_intermediate_post_process(colors, num_samples)]
      [] pp = "Oidn" /\ feature -> [ok |-> FALSE, colors |-> colors]
      [] OTHER -> [ok |-> TRUE, colors |-> colors]

\* PostProcessor::post_process; device_ok is whether the denoising device
\* reports no error
post_process(pp, feature, device_ok, colors, albedo, normal, num_samples) ==
    CASE pp = "Bloom" ->
            [ok |-> TRUE,
             image |-> pixel_colors_to_rgb_image(
                          bloom_intermediate_post_process(colors, num_samples), num_samples)]
      [] pp = "Oidn" /\ feature ->
            [ok |-> device_ok,
             image |-> [i \in DOMAIN colors |->
                          <<"denoised", to_rgb_color(colors[i], num_samples),
                            to_rgb_color(albedo[i], num_samples),
                            to_rgb_color(normal[i], num_samples)>>]]
      [] OTHER -> [ok |-> TRUE, image |-> pixel_colors_to_rgb_image(colors, num_samples)]


(***************************************************************************)
(* ray_trace: Renderer::new, then Renderer::render                         *)
(***************************************************************************)
samples_per_pixel == scene.render_config.samples_per_pixel
pixel_count == image_width * image_height
Pixels == 0..(pixel_count - 1)
RowIds == 0..(image_height - 1)
Columns == 0..(image_width - 1)

\* vec![ZERO_VECTOR; pixel_count]
zero_buffer(n) == [i \in 0..(n - 1) |-> ZERO_VECTOR]

\* The local needs_albedo_and_normal_colors of render
render_needs_albedo_and_normal_colors ==
    ~needs_albedo_and_normal_colors(scene.render_config, oidn_feature)

\* What a ray through a pixel can hit: nothing, or a primitive of the world
HitChoices == 0..Len(scene.world)

\* let yi = ((image_height - 1) - y) * image_width
row_offset(y) == ((image_height - 1) - y) * image_width

\* colors[yi + x] = row_colors[x] in place of +=
add_row_data_overwriting(yi, colors, row_colors) ==
    [i \in DOMAIN colors |->
        IF i >= yi /\ i - yi \in DOMAIN row_colors
        THEN row_colors[i - yi]
        ELSE colors[i]]

\* add_row_data: colors[yi + x] += row_colors[x]
add_row_data(yi, colors, row_colors) ==
    [i \in DOMAIN colors |->
        IF i >= yi /\ i - yi \in DOMAIN row_colors
        THEN colors[i] + row_colors[i - yi]
        ELSE colors[i]]

\* A row task: where it is, the Mutex it holds, and its row_albedo_colors
\* and row_normal_colors
idle_row == [pc |-> "idle", lock |-> "none", albedo |-> <<>>, normal |-> <<>>]
done_row == [pc |-> "done", lock |-> "none", albedo |-> <<>>, normal |-> <<>>]

Sequences_upto(S, n) == UNION {[1..k -> S] : k \in 0..n}

\* The render configurations: every post processor chain and image strategy
\* with the path tracer over a lit world, and every shader over every world
\* with the default chain and strategy
Scenes ==
    {[world |-> w, background_color |-> SceneColors.background,
      render_config |-> [samples_per_pixel |-> n, shader |-> sh,
                         post_processors |-> pp, render_image_strategy |-> st]] :
        w \in Worlds, n \in 0..MaxSamples, sh \in Shaders,
        pp \in Sequences_upto(PostProcessors, MaxPostProcessors), st \in Strategies}

InitHitIdle == ray_query = None /\ bvh_hit = None /\ list_hit = None /\ other_hit = None

InitBvhIdle == bvh_list = <<>> /\ bvh_result = None /\ InitHitIdle

InitPathIdle ==
    /\ max_depth = 0 /\ path_pc = "idle" /\ depth = 0 /\ stack = <<>> /\ value = 0
    /\ pdf_result = None /\ row_pixel_color = None

InitNewIdle ==
    builds = <<>> /\ world_root = None /\ light_list = None /\ shade_result = <<>>

\* What a single render leaves alone
InitIdle == InitBvhIdle /\ first_run = None /\ InitPathIdle /\ InitNewIdle

InitRender(scenes, widths, heights) ==
    /\ scene \in scenes
    /\ oidn_feature \in BOOLEAN
    /\ oidn_feature => \E i \in 1..Len(scene.render_config.post_processors) :
                          scene.render_config.post_processors[i] = "Oidn"
    /\ image_width \in widths
    /\ image_height \in heights
    /\ lights = <<>>
    /\ pc = "new"
    /\ result = "none"
    /\ sample = 0
    /\ rows = [y \in RowIds |-> idle_row]
    /\ pixel_colors = zero_buffer(pixel_count)
    /\ albedo_colors = zero_buffer(pixel_count)
    /\ normal_colors = zero_buffer(pixel_count)
    /\ merged = [y \in RowIds |-> 0]
    /\ sum_pixel = zero_buffer(pixel_count)
    /\ sum_albedo = zero_buffer(pixel_count)
    /\ sum_normal = zero_buffer(pixel_count)
    /\ clock = 0
    /\ last_image_generated_time = 0
    /\ since_last_image = 0
    /\ render_image = None
    /\ post_calls = <<>>
    /\ abort_queue = <<>>
    /\ abort_sender_alive = TRUE
    /\ aborts_sent = 0
    /\ output = <<>>
    /\ received = 0
    /\ receiver_alive = TRUE
    /\ sent_after_abort = 0
    /\ passes_after_abort = 0

ControlScenes ==
    {sc \in Scenes :
        \/ sc.world = <<[material |-> "DiffuseLight"]>> /\ sc.render_config.shader = "PathTracing"
        \/ sc.render_config.post_processors = <<>>
           /\ sc.render_config.render_image_strategy.kind = "OnlyFinal"}

Init == InitRender(ControlScenes, {MaxWidth}, {MaxHeight}) /\ InitIdle

\* The chain is left as configured
with_default_post_processor_kept(pps) == pps

\* Renderer::new: an empty post processor chain becomes the NopPostProcessor
with_default_post_processor(pps) == IF Len(pps) = 0 THEN <<"Nop">> ELSE pps

\* Renderer::new
RendererNew ==
    /\ pc = "new"
    /\ lights' = get_lights(scene.world)
    /\ IF Len(lights') = 0 /\ needs_light(scene.render_config.shader)
       THEN /\ result' = "Scene should have at least one light"
            /\ pc' = "done"
            /\ scene' = scene
       ELSE /\ scene' = [scene EXCEPT !.render_config.post_processors =
                                        with_default_post_processor(@)]
            /\ pc' = "render"
            /\ result' = result
    /\ UNCHANGED <<oidn_feature, since_last_image, image_width, image_height, sample, rows, pixel_colors,
                   albedo_colors, normal_colors, merged, sum_pixel, sum_albedo,
                   sum_normal, clock, last_image_generated_time, render_image,
                   post_calls, abort_queue, abort_sender_alive, aborts_sent, output,
                   received, receiver_alive, sent_after_abort, passes_after_abort, other_vars>>


\* render, up to the sample loop: the buffers, the clocks, the thread pool
RenderBegin ==
    /\ pc = "render"
    /\ last_image_generated_time' = clock - 1000
    /\ pixel_colors' = zero_buffer(pixel_count)
    /\ albedo_colors' = zero_buffer(pixel_count)
    /\ normal_colors' = zero_buffer(pixel_count)
    /\ sample' = 1
    /\ pc' = "poll"
    /\ UNCHANGED <<scene, since_last_image, oidn_feature, image_width, image_height, lights, result, rows,
                   merged, sum_pixel, sum_albedo, sum_normal, clock, render_image,
                   post_calls, abort_queue, abort_sender_alive, aborts_sent, output,
                   received, receiver_alive, sent_after_abort, passes_after_abort, other_vars>>

\* 1..samples_per_pixel in place of 1..=samples_per_pixel
loop_finished_early(smp, total) == smp >= total

\* A loop whose body runs once before the range is looked at
loop_finished_after_first(smp, total) == smp > total /\ smp > 1

\* for sample in 1..=samples_per_pixel: the loop has run out
loop_finished(smp, total) == smp > total

\* The abort channel is never looked at
try_recv_never(queue) == FALSE

\* Only a message of value true counts
try_recv_true_only(queue) == Len(queue) > 0 /\ Head(queue)

\* Only a message of value false counts
try_recv_false_only(queue) == Len(queue) > 0 /\ ~Head(queue)

\* abort.try_recv().is_ok(): a message of either value is waiting
try_recv_is_ok(queue) == Len(queue) > 0

\* for sample in 1..=samples_per_pixel { if abort.try_recv().is_ok() { return Ok(()) } ...
PollAbort ==
    /\ pc = "poll"
    /\ IF loop_finished(sample, samples_per_pixel)
       THEN /\ result' = "Ok"
            /\ pc' = "done"
            /\ abort_queue' = abort_queue
       ELSE IF try_recv_is_ok(abort_queue)
            THEN /\ abort_queue' = Tail(abort_queue)
                 /\ result' = "Ok"
                 /\ pc' = "done"
            ELSE /\ pc' = "spawn"
                 /\ UNCHANGED <<abort_queue, result>>
    /\ UNCHANGED <<scene, since_last_image, oidn_feature, image_width, image_height, lights, sample, rows,
                   pixel_colors, albedo_colors, normal_colors, merged, sum_pixel,
                   sum_albedo, sum_normal, clock, last_image_generated_time,
                   render_image, post_calls, abort_sender_alive, aborts_sent, output,
                   received, receiver_alive, sent_after_abort, passes_after_abort, other_vars>>

\* The y the spawning loop of pool.scope has reached
next_y == Cardinality({y \in RowIds : rows[y].pc # "idle"})

\* for y in 0..image_height { s.spawn(...) }
SpawnRow ==
    /\ pc = "spawn"
    /\ rows' = [rows EXCEPT ![next_y] = [pc |-> "running", lock |-> "none",
                                         albedo |-> <<>>, normal |-> <<>>]]
    /\ pc' = IF next_y = image_height - 1 THEN "scope" ELSE "spawn"
    /\ UNCHANGED <<scene, since_last_image, oidn_feature, image_width, image_height, lights, result, sample,
                   pixel_colors, albedo_colors, normal_colors, merged, sum_pixel,
                   sum_albedo, sum_normal, clock, last_image_generated_time,
                   render_image, post_calls, abort_queue, abort_sender_alive,
                   aborts_sent, output, received, receiver_alive, sent_after_abort,
                   passes_after_abort, other_vars>>

\* Every task takes the Mutex without waiting
mutex_free_always(tasks, buffer) == TRUE

\* Mutex::lock returns once no other thread holds the Mutex of the buffer
mutex_free(tasks, buffer) == \A y \in DOMAIN tasks : tasks[y].lock # buffer

\* The buffer a row task locks next
lock_wanted(task) ==
    CASE task.pc = "running" -> "pixel_colors"
      [] task.pc = "pixel" -> "albedo_colors"
      [] task.pc = "albedo" -> "normal_colors"
      [] OTHER -> "none"

\* A row task's pixel_colors.lock(), albedo_colors.lock() or
\* normal_colors.lock() returns
RowLock(y) ==
    /\ rows[y].lock = "none"
    /\ lock_wanted(rows[y]) # "none"
    /\ mutex_free(rows, lock_wanted(rows[y]))
    /\ rows' = [rows EXCEPT ![y].lock = lock_wanted(rows[y])]
    /\ UNCHANGED <<scene, since_last_image, oidn_feature, image_width, image_height, lights, pc, result,
                   sample, pixel_colors, albedo_colors, normal_colors, merged, sum_pixel,
                   sum_albedo, sum_normal, clock, last_image_generated_time,
                   render_image, post_calls, abort_queue, abort_sender_alive,
                   aborts_sent, output, received, receiver_alive, sent_after_abort,
                   passes_after_abort, other_vars>>

\* A row task: the colours of the row's pixels, then
\* add_row_data(yi, &mut pixel_colors.lock().unwrap(), &row_pixel_colors);
\* the guard is dropped at the end of the statement
RowAddPixel(y) ==
    /\ rows[y].pc = "running"
    /\ rows[y].lock = "pixel_colors"
    /\ \E hits \in [Columns -> HitChoices] :
        LET res == [x \in Columns |-> ray_color(scene, oidn_feature, hits[x])]
            yi == row_offset(y)
        IN /\ pixel_colors' = add_row_data(yi, pixel_colors,
                                           [x \in Columns |-> res[x].pixel_color])
           /\ rows' = [rows EXCEPT ![y] =
                         IF render_needs_albedo_and_normal_colors
                         THEN [pc |-> "pixel", lock |-> "none",
                               albedo |-> [x \in Columns |-> res[x].albedo_color],
                               normal |-> [x \in Columns |-> res[x].normal_color]]
                         ELSE done_row]
           /\ sum_pixel' = [i \in Pixels |->
                              IF i >= yi /\ i - yi \in Columns
                              THEN sum_pixel[i] + res[i - yi].pixel_color
                              ELSE sum_pixel[i]]
           /\ sum_albedo' = [i \in Pixels |->
                               IF i >= yi /\ i - yi \in Columns
                               THEN sum_albedo[i] + depth0_albedo(scene, hits[i - yi])
                               ELSE sum_albedo[i]]
           /\ sum_normal' = [i \in Pixels |->
                               IF i >= yi /\ i - yi \in Columns
                               THEN sum_normal[i] + depth0_normal(scene, hits[i - yi])
                               ELSE sum_normal[i]]
    /\ merged' = [merged EXCEPT ![y] = @ + 1]
    /\ UNCHANGED <<scene, since_last_image, oidn_feature, image_width, image_height, lights, pc, result,
                   sample, albedo_colors, normal_colors, clock,
                   last_image_generated_time, render_image, post_calls, abort_queue,
                   abort_sender_alive, aborts_sent, output, received, receiver_alive,
                   sent_after_abort, passes_after_abort, other_vars>>

\* add_row_data(yi, &mut albedo_colors.lock().unwrap(), &row_albedo_colors)
RowAddAlbedo(y) ==
    /\ rows[y].pc = "pixel"
    /\ rows[y].lock = "albedo_colors"
    /\ albedo_colors' = add_row_data(row_offset(y), albedo_colors, rows[y].albedo)
    /\ rows' = [rows EXCEPT ![y].pc = "albedo", ![y].lock = "none"]
    /\ UNCHANGED <<scene, since_last_image, oidn_feature, image_width, image_height, lights, pc, result,
                   sample, pixel_colors, normal_colors, merged, sum_pixel, sum_albedo,
                   sum_normal, clock, last_image_generated_time, render_image,
                   post_calls, abort_queue, abort_sender_alive, aborts_sent, output,
                   received, receiver_alive, sent_after_abort, passes_after_abort, other_vars>>

\* add_row_data(yi, &mut normal_colors.lock().unwrap(), &row_normal_colors)
RowAddNormal(y) ==
    /\ rows[y].pc = "albedo"
    /\ rows[y].lock = "normal_colors"
    /\ normal_colors' = add_row_data(row_offset(y), normal_colors, rows[y].normal)
    /\ rows' = [rows EXCEPT ![y] = done_row]
    /\ UNCHANGED <<scene, since_last_image, oidn_feature, image_width, image_height, lights, pc, result,
                   sample, pixel_colors, albedo_colors, merged, sum_pixel, sum_albedo,
                   sum_normal, clock, last_image_generated_time, render_image,
                   post_calls, abort_queue, abort_sender_alive, aborts_sent, output,
                   received, receiver_alive, sent_after_abort, passes_after_abort, other_vars>>


\* What SystemTime::now() can differ by between two samples (the system
\* clock may be set back)
Ticks == {-1, 0, 1}

\* now.duration_since(last_image_generated_time).unwrap_or(Duration::from_millis(0))
duration_since(now, earlier) == IF now >= earlier THEN now - earlier ELSE 0

\* An image is rendered for every sample
image_due_always(strategy, smp, total, now, last) == TRUE

\* The match on render_image_strategy: is an image rendered for this sample
image_due(strategy, smp, total, now, last) ==
    CASE strategy.kind = "EverySample" -> TRUE
      [] strategy.kind = "Interval" ->
            smp = total \/ duration_since(now, last) > strategy.d
      [] OTHER -> smp = total

\* for ipp in intermediate_post_processors { ...intermediate_post_process(...)? }
RECURSIVE run_intermediate(_, _, _, _, _)
run_intermediate(pps, feature, colors, num_samples, calls) ==
    IF Len(pps) = 0
    THEN [ok |-> TRUE, colors |-> colors, calls |-> calls]
    ELSE LET r == intermediate_post_process(Head(pps), feature, colors, num_samples)
             c == Append(calls, [pp |-> Head(pps), stage |-> "intermediate",
                                 index |-> Len(calls) + 1, colors |-> colors])
         IN IF r.ok
            THEN run_intermediate(Tail(pps), feature, r.colors, num_samples, c)
            ELSE [ok |-> FALSE, colors |-> colors, calls |-> c]

\* The last post processor is handed the accumulated colours, not the output
\* of the stages before it
run_post_processors_unchained(pps, feature, device_ok, colors, albedo, normal, num_samples) ==
    LET n == Len(pps)
        mid == run_intermediate(SubSeq(pps, 1, n - 1), feature, colors, num_samples, <<>>)
        fin == post_process(pps[n], feature, device_ok, colors, albedo, normal, num_samples)
        calls == Append(mid.calls, [pp |-> pps[n], stage |-> "final", index |-> n,
                                    colors |-> colors])
    IN IF ~mid.ok THEN [ok |-> FALSE, image |-> None, calls |-> mid.calls]
       ELSE IF ~fin.ok THEN [ok |-> FALSE, image |-> None, calls |-> calls]
       ELSE [ok |-> TRUE, image |-> fin.image, calls |-> calls]

\* The post-processing chain over a copy of pixel_colors: split_last, the
\* intermediate post processors in order, then the last one's post_process
run_post_processors(pps, feature, device_ok, colors, albedo, normal, num_samples) ==
    LET n == Len(pps)
        mid == run_intermediate(SubSeq(pps, 1, n - 1), feature, colors, num_samples, <<>>)
        fin == post_process(pps[n], feature, device_ok, mid.colors, albedo, normal, num_samples)
        calls == Append(mid.calls, [pp |-> pps[n], stage |-> "final", index |-> n,
                                    colors |-> mid.colors])
    IN IF ~mid.ok THEN [ok |-> FALSE, image |-> None, calls |-> mid.calls]
       ELSE IF ~fin.ok THEN [ok |-> FALSE, image |-> None, calls |-> calls]
       ELSE [ok |-> TRUE, image |-> fin.image, calls |-> calls]

\* The clock is read where the image strategy uses it
clock_ticks ==
    IF scene.render_config.render_image_strategy.kind = "Interval" THEN Ticks ELSE {0}

\* The denoising device can report an error where it is used
device_outcomes ==
    IF oidn_feature /\ Len(scene.render_config.post_processors) > 0
       /\ scene.render_config.post_processors[Len(scene.render_config.post_processors)] = "Oidn"
    THEN BOOLEAN ELSE {TRUE}

\* The scope does not wait for its tasks
scope_finished_at_once(tasks) == TRUE

\* pool.scope returns once every task spawned in it has finished
scope_finished(tasks) == \A y \in DOMAIN tasks : tasks[y].pc = "done"

\* The end of pool.scope (every row task has finished) and the block that
\* renders the image of the sample
GenerateImage ==
    /\ pc = "scope"
    /\ scope_finished(rows)
    /\ mutex_free(rows, "pixel_colors")
    /\ mutex_free(rows, "albedo_colors")
    /\ mutex_free(rows, "normal_colors")
    /\ passes_after_abort' = IF aborts_sent > 0 THEN passes_after_abort + 1
                             ELSE passes_after_abort
    /\ \E tick \in clock_ticks, device_ok \in device_outcomes :
        LET now == clock + tick
            pps == scene.render_config.post_processors
        IN /\ clock' = now
           /\ since_last_image' = duration_since(now, last_image_generated_time)
           /\ IF image_due(scene.render_config.render_image_strategy, sample,
                           samples_per_pixel, now, last_image_generated_time)
              THEN /\ last_image_generated_time' = now
                   /\ IF Len(pps) = 0
                      THEN /\ render_image' = None
                           /\ pc' = "send"
                           /\ UNCHANGED <<abort_queue, result, post_calls>>
                      ELSE IF try_recv_is_ok(abort_queue)
                      THEN /\ abort_queue' = Tail(abort_queue)
                           /\ result' = "Ok"
                           /\ pc' = "done"
                           /\ UNCHANGED <<render_image, post_calls>>
                      ELSE LET r == run_post_processors(pps, oidn_feature, device_ok,
                                        pixel_colors, albedo_colors, normal_colors, sample)
                           IN /\ post_calls' = r.calls
                              /\ abort_queue' = abort_queue
                              /\ IF r.ok
                                 THEN /\ render_image' = Some(r.image)
                                      /\ pc' = "send"
                                      /\ result' = result
                                 ELSE /\ render_image' = render_image
                                      /\ pc' = "done"
                                      /\ result' = "PostProcessError"
              ELSE /\ render_image' = None
                   /\ pc' = "send"
                   /\ UNCHANGED <<last_image_generated_time, abort_queue, result, post_calls>>
    /\ UNCHANGED <<scene, oidn_feature, image_width, image_height, lights, sample, rows,
                   pixel_colors, albedo_colors, normal_colors, merged, sum_pixel,
                   sum_albedo, sum_normal, abort_sender_alive, aborts_sent, output,
                   received, receiver_alive, sent_after_abort, other_vars>>

\* A channel that holds one message: send waits until the last was received
send_blocks_when_unread(queue, taken) == Len(queue) > taken

\* Sender::send on the channel of std::sync::mpsc::channel() queues the
\* message whatever the receiver has left unread, and never waits
send_blocks(queue, taken) == FALSE

\* The error of send is dropped
send_is_ok_always(alive) == TRUE

\* Sender::send is Ok while the Receiver exists, and Err(SendError) once
\* it was dropped
send_is_ok(alive) == alive

\* output.send(RenderProgress { progress: sample / samples_per_pixel, ..., render_image })?
\* and the step to the next sample
SendProgress ==
    /\ pc = "send"
    /\ ~send_blocks(output, received)
    /\ IF send_is_ok(receiver_alive)
       THEN /\ output' = Append(output, [sample |-> sample,
                                         samples_per_pixel |-> samples_per_pixel,
                                         render_image |-> render_image])
            /\ sent_after_abort' = IF aborts_sent > 0 THEN sent_after_abort + 1
                                   ELSE sent_after_abort
            /\ sample' = sample + 1
            /\ rows' = [y \in RowIds |-> idle_row]
            /\ pc' = "poll"
            /\ result' = result
       ELSE /\ result' = "SendError"
            /\ pc' = "done"
            /\ UNCHANGED <<output, sent_after_abort, sample, rows>>
    /\ UNCHANGED <<scene, since_last_image, oidn_feature, image_width, image_height, lights, pixel_colors,
                   albedo_colors, normal_colors, merged, sum_pixel, sum_albedo,
                   sum_normal, clock, last_image_generated_time, render_image,
                   post_calls, abort_queue, abort_sender_alive, aborts_sent, received,
                   receiver_alive, passes_after_abort, other_vars>>

\* The caller keeps the buffers a finished render ended with and calls
\* ray_trace again, with the same scene and size and with new channels
RenderAgain ==
    /\ pc = "done"
    /\ result = "Ok"
    /\ first_run = None
    /\ first_run' = Some([pixel_colors |-> pixel_colors, albedo_colors |-> albedo_colors,
                          normal_colors |-> normal_colors])
    /\ lights' = <<>>
    /\ pc' = "new"
    /\ result' = "none"
    /\ sample' = 0
    /\ rows' = [y \in RowIds |-> idle_row]
    /\ pixel_colors' = zero_buffer(pixel_count)
    /\ albedo_colors' = zero_buffer(pixel_count)
    /\ normal_colors' = zero_buffer(pixel_count)
    /\ merged' = [y \in RowIds |-> 0]
    /\ sum_pixel' = zero_buffer(pixel_count)
    /\ sum_albedo' = zero_buffer(pixel_count)
    /\ sum_normal' = zero_buffer(pixel_count)
    /\ clock' = 0
    /\ last_image_generated_time' = 0
    /\ since_last_image' = 0
    /\ render_image' = None
    /\ post_calls' = <<>>
    /\ abort_queue' = <<>>
    /\ abort_sender_alive' = TRUE
    /\ aborts_sent' = 0
    /\ output' = <<>>
    /\ received' = 0
    /\ receiver_alive' = TRUE
    /\ sent_after_abort' = 0
    /\ passes_after_abort' = 0
    /\ UNCHANGED <<scene, oidn_feature, image_width, image_height, bvars, pvars, nvars>>

(***************************************************************************)
(* The caller: the other ends of the two channels                          *)
(***************************************************************************)
\* abort_sender.send(b)
SendAbort ==
    /\ pc # "done"
    /\ abort_sender_alive
    /\ aborts_sent < MaxAborts
    /\ \E b \in BOOLEAN : abort_queue' = Append(abort_queue, b)
    /\ aborts_sent' = aborts_sent + 1
    /\ UNCHANGED <<scene, since_last_image, oidn_feature, image_width, image_height, lights, pc, result,
                   sample, rows, pixel_colors, albedo_colors, normal_colors, merged,
                   sum_pixel, sum_albedo, sum_normal, clock, last_image_generated_time,
                   render_image, post_calls, abort_sender_alive, output, received,
                   receiver_alive, sent_after_abort, passes_after_abort, other_vars>>

\* The abort sender is dropped
DropAbortSender ==
    /\ pc = "new"
    /\ abort_sender_alive
    /\ abort_sender_alive' = FALSE
    /\ UNCHANGED <<scene, since_last_image, oidn_feature, image_width, image_height, lights, pc, result,
                   sample, rows, pixel_colors, albedo_colors, normal_colors, merged,
                   sum_pixel, sum_albedo, sum_normal, clock, last_image_generated_time,
                   render_image, post_calls, abort_queue, aborts_sent, output, received,
                   receiver_alive, sent_after_abort, passes_after_abort, other_vars>>

\* output_receiver.recv()
ReceiveProgress ==
    /\ receiver_alive
    /\ received < Len(output)
    /\ received' = received + 1
    /\ UNCHANGED <<scene, since_last_image, oidn_feature, image_width, image_height, lights, pc, result,
                   sample, rows, pixel_colors, albedo_colors, normal_colors, merged,
                   sum_pixel, sum_albedo, sum_normal, clock, last_image_generated_time,
                   render_image, post_calls, abort_queue, abort_sender_alive,
                   aborts_sent, output, receiver_alive, sent_after_abort,
                   passes_after_abort, other_vars>>

\* The output receiver is dropped
DropReceiver ==
    /\ pc # "done"
    /\ receiver_alive
    /\ receiver_alive' = FALSE
    /\ UNCHANGED <<scene, since_last_image, oidn_feature, image_width, image_height, lights, pc, result,
                   sample, rows, pixel_colors, albedo_colors, normal_colors, merged,
                   sum_pixel, sum_albedo, sum_normal, clock, last_image_generated_time,
                   render_image, post_calls, abort_queue, abort_sender_alive,
                   aborts_sent, output, received, sent_after_abort,
                   passes_after_abort, other_vars>>

Next ==
    \/ RendererNew
    \/ RenderBegin
    \/ PollAbort
    \/ SpawnRow
    \/ \E y \in RowIds : RowLock(y)
    \/ \E y \in RowIds : RowAddPixel(y)
    \/ \E y \in RowIds : RowAddAlbedo(y)
    \/ \E y \in RowIds : RowAddNormal(y)
    \/ GenerateImage
    \/ SendProgress
    \/ SendAbort
    \/ DropAbortSender
    \/ ReceiveProgress
    \/ DropReceiver

Spec == Init /\ [][Next]_vars

\* The calling thread and the pool's workers keep running; the caller's ends
\* of the channels are under no obligation
Program ==
    \/ RendererNew \/ RenderBegin \/ PollAbort \/ SpawnRow
    \/ \E y \in RowIds : RowLock(y) \/ RowAddPixel(y) \/ RowAddAlbedo(y) \/ RowAddNormal(y)
    \/ GenerateImage \/ SendProgress

\* Renders by the path tracer of a lit world, with the default chain and
\* one final image, each made twice
TwiceScenes ==
    {sc \in Scenes :
        /\ Len(get_lights(sc.world)) > 0
        /\ sc.render_config.samples_per_pixel > 0
        /\ sc.render_config.shader = "PathTracing"
        /\ sc.render_config.post_processors = <<>>
        /\ sc.render_config.render_image_strategy.kind = "OnlyFinal"}

InitTwice == InitRender(TwiceScenes, {MaxWidth}, {MaxHeight}) /\ InitIdle

NextTwice == Program \/ RenderAgain

SpecTwice == InitTwice /\ [][NextTwice]_vars

\* Renders of one sample more, with a caller that sends no abort message,
\* keeps the receiver and leaves the progress unread
LongScenes ==
    {sc \in Scenes :
        /\ sc.world = <<[material |-> "DiffuseLight"]>>
        /\ sc.render_config.shader = "PathTracing"
        /\ Len(sc.render_config.post_processors) <= 1}

InitLong ==
    /\ InitRender({[sc EXCEPT !.render_config.samples_per_pixel = MaxSamples + 1] :
                        sc \in LongScenes},
                  {MaxWidth}, {MaxHeight})
    /\ InitIdle

SpecLong == InitLong /\ [][Program]_vars

\* The calling thread and the pool's workers are scheduled: while one of
\* them can take a step, one is taken. The renders are those whose image
\* strategy does not read the clock
InitLongFair == InitLong /\ scene.render_config.render_image_strategy.kind # "Interval"

SpecLongFair == InitLongFair /\ [][Program]_vars /\ WF_vars(Program)


(***************************************************************************)
(* Bvh::new.  Coordinates are integers; a centre is kept doubled           *)
(* (min + max) so that it stays an integer.                                *)
(***************************************************************************)
INFINITY == 1000000

\* util::interval::EMPTY_INTERVAL
EMPTY_INTERVAL == [min |-> INFINITY, max |-> -INFINITY]

\* util::interval::combine_intervals
combine_intervals(a, b) == [min |-> Min(a.min, b.min), max |-> Max(a.max, b.max)]

\* Aabb::default
default_aabb == <<EMPTY_INTERVAL, EMPTY_INTERVAL, EMPTY_INTERVAL>>

\* Aabb::combine keeping only the receiver's intervals
combine_left(a, b) == [axis \in 1..3 |-> a[axis]]

\* Aabb::combine: per axis the union of the two intervals
combine(a, b) == [axis \in 1..3 |-> combine_intervals(a[axis], b[axis])]

box(x0, x1, y0, y1, z0, z1) ==
    <<[min |-> x0, max |-> x1], [min |-> y0, max |-> y1], [min |-> z0, max |-> z1]>>

\* Vec3: dot, cross, sum, difference and scaling
dot(a, b) == a[1] * b[1] + a[2] * b[2] + a[3] * b[3]
cross(a, b) == <<a[2] * b[3] - a[3] * b[2], a[3] * b[1] - a[1] * b[3],
                 a[1] * b[2] - a[2] * b[1]>>
vadd(a, b) == <<a[1] + b[1], a[2] + b[2], a[3] + b[3]>>
vsub(a, b) == <<a[1] - b[1], a[2] - b[2], a[3] - b[3]>>
vscale(a, k) == <<a[1] * k, a[2] * k, a[3] * k>>
length_squared(a) == dot(a, a)

\* Aabb::new_from_2_points
new_from_2_points(a, b) ==
    [axis \in 1..3 |-> [min |-> Min(a[axis], b[axis]), max |-> Max(a[axis], b[axis])]]

\* Aabb::new_from_3_points
new_from_3_points(a, b, c) ==
    [axis \in 1..3 |-> [min |-> Min(Min(a[axis], b[axis]), c[axis]),
                        max |-> Max(Max(a[axis], b[axis]), c[axis])]]

\* Lengths are counted in units of PAD_DELTA / 2
PAD_DELTA == 2

\* Interval::expand
expand(iv, delta) == [min |-> iv.min - delta \div 2, max |-> iv.max + delta \div 2]

\* Aabb::pad_if_needed
pad_if_needed(b) ==
    [axis \in 1..3 |->
        IF b[axis].max - b[axis].min >= PAD_DELTA THEN b[axis]
        ELSE expand(b[axis], PAD_DELTA)]

\* Sphere::new
Sphere(id, center, radius) ==
    [id |-> id, kind |-> "Sphere", p |-> center, radius |-> radius,
     u |-> <<0, 0, 0>>, v |-> <<0, 0, 0>>,
     b_box |-> new_from_2_points(vsub(center, <<radius, radius, radius>>),
                                 vadd(center, <<radius, radius, radius>>))]

\* Quad::new, with the NopTransformer
Quad(id, q, u, v) ==
    [id |-> id, kind |-> "Quad", p |-> q, radius |-> 0, u |-> u, v |-> v,
     b_box |-> pad_if_needed(
                  combine(combine(combine(default_aabb, new_from_2_points(q, vadd(q, u))),
                                  new_from_2_points(q, vadd(q, v))),
                          new_from_2_points(q, vadd(vadd(q, u), v))))]

\* Triangle::new, with the NopTransformer: p is v0, u is v0v1, v is v0v2
Triangle(id, v0, v1, v2) ==
    [id |-> id, kind |-> "Triangle", p |-> v0, radius |-> 0,
     u |-> vsub(v1, v0), v |-> vsub(v2, v0),
     b_box |-> pad_if_needed(new_from_3_points(v0, v1, v2))]

\* The primitives handed to Bvh::new: two spheres along the x axis, a quad
\* off the axis, a second sphere where the first is, and a triangle between
\* the spheres
BvhPrimitives ==
    {Sphere("a", <<1, 1, 1>>, 1),
     Sphere("b", <<5, 1, 1>>, 1),
     Quad("c", <<1, 6, 0>>, <<0, 4, 0>>, <<0, 0, 2>>),
     Sphere("d", <<1, 1, 1>>, 1),
     Triangle("e", <<3, 0, 0>>, <<3, 4, 0>>, <<3, 0, 4>>)}

\* Twice bounding_box().center().axis(axis)
center2(h, axis) == h.b_box[axis].min + h.b_box[axis].max

SetMin(S) == CHOOSE m \in S : \A e \in S : m <= e
SetMax(S) == CHOOSE m \in S : \A e \in S : m >= e

\* bounding_box_spread, doubled: (max - min, min + max) of the doubled centres
bounding_box_spread(list, axis) ==
    LET cs == {center2(list[i], axis) : i \in 1..Len(list)}
    IN [spread |-> SetMax(cs) - SetMin(cs), center |-> SetMin(cs) + SetMax(cs)]

\* What list.sort_unstable_by(centre on axis) can leave: the orders of the
\* list that ascend in the centre (equal centres in any order)
sorted_orders(list, axis) ==
    {[i \in 1..Len(list) |-> list[p[i]]] : p \in
        {q \in Permutations(1..Len(list)) :
            \A i \in 1..(Len(list) - 1) :
                center2(list[q[i]], axis) <= center2(list[q[i + 1]], axis)}}

\* The index sort_hittables_by_center returns for a sorted list: the first
\* element whose centre is not left of center, or the length
first_not_left(sorted, center, axis) ==
    LET hit == {i \in 1..Len(sorted) : 2 * center2(sorted[i], axis) >= center}
    IN IF hit = {} THEN Len(sorted) ELSE SetMin(hit) - 1

\* The axis sort_hittables_slice_by_most_spread_axis sorts by
most_spread_axis(list) ==
    LET x == bounding_box_spread(list, 1).spread
        y == bounding_box_spread(list, 2).spread
        z == bounding_box_spread(list, 3).spread
    IN IF x >= y /\ x >= z THEN 1 ELSE IF y >= x /\ y >= z THEN 2 ELSE 3

\* The split without the step to the middle index
sort_hittables_slice_unsplit(list) ==
    LET axis == most_spread_axis(list)
        center == bounding_box_spread(list, axis).center
    IN {[list |-> s, mid |-> first_not_left(s, center, axis)] :
        s \in sorted_orders(list, axis)}

\* sort_hittables_slice_by_most_spread_axis: the sorted lists it can leave,
\* each with the split index it returns
sort_hittables_slice_by_most_spread_axis(list) ==
    LET axis == most_spread_axis(list)
        center == bounding_box_spread(list, axis).center
    IN {[list |-> s,
         mid |-> LET c == first_not_left(s, center, axis)
                 IN IF c = 0 \/ c = Len(s) THEN Len(s) \div 2 ELSE c] :
        s \in sorted_orders(list, axis)}

bvh_leaf(h) == [kind |-> "Leaf", hittable |-> h]
bvh_none == [kind |-> "None"]
bvh_node_unboxed(l, r, b) == [kind |-> "Node", left |-> l, right |-> r, b_box |-> default_aabb]
bvh_node(l, r, b) == [kind |-> "Node", left |-> l, right |-> r, b_box |-> b]

\* new_bvh: the trees it can build for a non-empty list
RECURSIVE new_bvh(_)
new_bvh(list) ==
    IF Len(list) = 1
    THEN {bvh_node(bvh_leaf(list[1]), bvh_none, list[1].b_box)}
    ELSE IF Len(list) = 2
    THEN {bvh_node(bvh_leaf(list[1]), bvh_leaf(list[2]),
                   combine(list[1].b_box, list[2].b_box))}
    ELSE UNION {
            {bvh_node(l, r, combine(l.b_box, r.b_box)) :
                l \in new_bvh(SubSeq(s.list, 1, s.mid)),
                r \in new_bvh(SubSeq(s.list, s.mid + 1, Len(s.list)))} :
            s \in sort_hittables_slice_by_most_spread_axis(list)}

\* Bvh::new: what it returns to the caller
bvh_new(list) ==
    IF Len(list) = 0
    THEN {[ok |-> TRUE, bvh |-> bvh_node(bvh_none, bvh_none, default_aabb)]}
    ELSE {[ok |-> TRUE, bvh |-> t] : t \in new_bvh(list)}

\* util::interval::UNIVERSE_INTERVAL
UNIVERSE_INTERVAL == [min |-> -INFINITY, max |-> INFINITY]

\* Interval::contains admitting every value
contains_anything(iv, x) == TRUE

\* Interval::contains of the open interval
contains_open(iv, x) == iv.min < x /\ x < iv.max

\* Interval::contains
contains(iv, x) == iv.min <= x /\ x <= iv.max

\* f64 arithmetic of Aabb::hit over the integers, the two infinities and NaN
NaN == 2 * INFINITY
is_infinite(x) == x = INFINITY \/ x = -INFINITY
fsub(x, y) == IF x = NaN \/ is_infinite(x) THEN x ELSE x - y
fmul(x, y) ==
    IF x = NaN \/ y = NaN THEN NaN
    ELSE IF is_infinite(x) \/ is_infinite(y)
    THEN IF x = 0 \/ y = 0 THEN NaN
         ELSE IF (x > 0) = (y > 0) THEN INFINITY ELSE -INFINITY
    ELSE x * y
\* f64::min and f64::max return the other operand when one is NaN
fmin(x, y) == IF x = NaN THEN y ELSE IF y = NaN THEN x ELSE Min(x, y)
fmax(x, y) == IF x = NaN THEN y ELSE IF y = NaN THEN x ELSE Max(x, y)
\* a comparison with NaN is false
fgt(x, y) == x # NaN /\ y # NaN /\ x > y

\* Ray::new: direction_inverted is 1 / direction per component, for
\* components in {-1, 0, 1}
Ray_new(origin, dir) ==
    [origin |-> origin, direction |-> dir,
     direction_inverted |-> [i \in 1..3 |-> IF dir[i] = 0 THEN INFINITY ELSE dir[i]]]

\* Ray::at
at(r, distance) == vadd(r.origin, vscale(r.direction, distance))

\* Aabb::hit: the slab test, which does not look at the queried interval
aabb_hit(b, r) ==
    LET t1(axis) == fmul(fsub(b[axis].min, r.origin[axis]), r.direction_inverted[axis])
        t2(axis) == fmul(fsub(b[axis].max, r.origin[axis]), r.direction_inverted[axis])
        tmin1 == fmin(t1(1), t2(1))
        tmax1 == fmax(t1(1), t2(1))
        tmin2 == fmax(tmin1, fmin(t1(2), t2(2)))
        tmax2 == fmin(tmax1, fmax(t1(2), t2(2)))
        tmin == fmax(tmin2, fmin(t1(3), t2(3)))
        tmax == fmin(tmax2, fmax(t1(3), t2(3)))
    IN fgt(tmax, fmax(tmin, 0))

\* f64::sqrt, exact on the squares the scenes produce
sqrt(x) == CHOOSE k \in 0..x : k * k <= x /\ (k + 1) * (k + 1) > x

\* Sphere::hit: the distance of the hit, or None
sphere_hit(s, r, ray_length) ==
    LET oc == vsub(r.origin, s.p)
        a == length_squared(r.direction)
        half_b == dot(oc, r.direction)
        c == length_squared(oc) - s.radius * s.radius
        discriminant == half_b * half_b - a * c
    IN IF discriminant < 0 THEN None
       ELSE LET sqrt_d == sqrt(discriminant)
                root == (-half_b - sqrt_d) \div a
                root2 == (-half_b + sqrt_d) \div a
            IN IF contains(ray_length, root) THEN Some(root)
               ELSE IF contains(ray_length, root2) THEN Some(root2)
               ELSE None

\* The smallest magnitude the integers tell from zero stands for ALMOST_ZERO
ALMOST_ZERO == 1

abs(x) == IF x < 0 THEN -x ELSE x

\* Vec3::unit of a vector along one axis
unit(n) == [i \in 1..3 |-> IF n[i] > 0 THEN 1 ELSE IF n[i] < 0 THEN -1 ELSE 0]

\* Quad::hit: the distance of the hit, or None; w is n / n.dot(n), so
\* alpha and beta are compared as fractions of n.dot(n)
quad_hit(qd, r, ray_length) ==
    LET n == cross(qd.u, qd.v)
        normal == unit(n)
        d == dot(normal, qd.p)
        denom == dot(normal, r.direction)
    IN IF abs(denom) < ALMOST_ZERO THEN None
       ELSE LET t == (d - dot(normal, r.origin)) \div denom
                planar_hit_point_vector == vsub(at(r, t), qd.p)
                alpha == dot(n, cross(planar_hit_point_vector, qd.v))
                beta == dot(n, cross(qd.u, planar_hit_point_vector))
            IN IF ~contains(ray_length, t) THEN None
               ELSE IF alpha < 0 \/ alpha > dot(n, n) \/ beta < 0 \/ beta > dot(n, n)
               THEN None
               ELSE Some(t)

\* Triangle::hit: the distance of the hit, or None; u and v are compared
\* as fractions of det
triangle_hit(tr, r, ray_length) ==
    LET p_vec == cross(r.direction, tr.v)
        det == dot(tr.u, p_vec)
    IN IF abs(det) < ALMOST_ZERO THEN None
       ELSE LET t_vec == vsub(r.origin, tr.p)
                q_vec == cross(t_vec, tr.u)
                sign == IF det > 0 THEN 1 ELSE -1
                u == sign * dot(t_vec, p_vec)
                v == sign * dot(r.direction, q_vec)
                tt == dot(tr.v, q_vec) \div det
            IN IF u < 0 \/ u > abs(det) THEN None
               ELSE IF v < 0 \/ u + v > abs(det) THEN None
               ELSE IF ~contains(ray_length, tt) THEN None
               ELSE Some(tt)

\* HittableList::new
HittableList(list) == [kind |-> "HittableList", list |-> list]

RECURSIVE hit(_, _, _)
RECURSIVE hittable_list_hit(_, _, _, _, _, _)
RECURSIVE hittable_list_hit_unnarrowed(_, _, _, _, _, _)

\* Bvh::hit: nothing when the ray misses the box; else the right child's
\* hit within the interval narrowed by the left child's, else the left's
bvh_hit_of(node, r, ray_length) ==
    IF ~aabb_hit(node.b_box, r) THEN None
    ELSE LET left_rec == hit(node.left, r, ray_length)
         IN IF left_rec = None THEN hit(node.right, r, ray_length)
            ELSE LET new_ray_length == [min |-> ray_length.min, max |-> left_rec[1]]
                     right_rec == hit(node.right, r, new_ray_length)
                 IN IF right_rec # None THEN right_rec ELSE left_rec

\* The scan hands every child the queried interval, never a narrowed one
hittable_list_hit_unnarrowed(list, i, r, ray_length, closest_interval, closest_hit_record) ==
    IF i > Len(list) THEN closest_hit_record
    ELSE LET hit_record_opt == hit(list[i], r, ray_length)
         IN IF hit_record_opt # None
            THEN hittable_list_hit_unnarrowed(list, i + 1, r, ray_length, ray_length,
                                              hit_record_opt)
            ELSE hittable_list_hit_unnarrowed(list, i + 1, r, ray_length, ray_length,
                                              closest_hit_record)

\* HittableList::hit from the i-th element on
hittable_list_hit(list, i, r, ray_length, closest_interval, closest_hit_record) ==
    IF i > Len(list) THEN closest_hit_record
    ELSE LET hit_record_opt == hit(list[i], r, closest_interval)
         IN IF hit_record_opt # None
            THEN hittable_list_hit(list, i + 1, r, ray_length,
                                   [min |-> ray_length.min, max |-> hit_record_opt[1]],
                                   hit_record_opt)
            ELSE hittable_list_hit(list, i + 1, r, ray_length, closest_interval,
                                   closest_hit_record)

\* Hittable::hit of the Hittables enum and of BvhItem
hit(h, r, ray_length) ==
    CASE h.kind = "Sphere" -> sphere_hit(h, r, ray_length)
      [] h.kind = "Quad" -> quad_hit(h, r, ray_length)
      [] h.kind = "Triangle" -> triangle_hit(h, r, ray_length)
      [] h.kind = "Node" -> bvh_hit_of(h, r, ray_length)
      [] h.kind = "Leaf" -> hit(h.hittable, r, ray_length)
      [] h.kind = "None" -> None
      [] h.kind = "HittableList" ->
            hittable_list_hit(h.list, 1, r, ray_length,
                              [min |-> ray_length.min, max |-> ray_length.max], None)

\* The 0.0001 ConstantMedium::hit steps past the entry point
MEDIUM_STEP == 2

\* ConstantMedium::hit for a ray of unit length, hit_distance being
\* negative_inverse_density * random_normal_float().ln()
constant_medium_hit(boundary, r, ray_length, hit_distance) ==
    LET rec1 == hit(boundary, r, UNIVERSE_INTERVAL)
    IN IF rec1 = None THEN None
       ELSE LET interval == [min |-> rec1[1] + MEDIUM_STEP, max |-> INFINITY]
                rec2 == hit(boundary, r, interval)
            IN IF rec2 = None THEN None
               ELSE LET rec1_ray_length == Max(rec1[1], ray_length.min)
                        rec2_ray_length == Min(rec2[1], ray_length.max)
                        distance_inside_boundary ==
                            rec2_ray_length - Max(rec1_ray_length, 0)
                        t == Max(rec1_ray_length, 0) + hit_distance
                    IN IF rec1_ray_length >= rec2_ray_length THEN None
                       ELSE IF hit_distance > distance_inside_boundary THEN None
                       ELSE Some(t)

\* Rays along the x axis, in both directions, from in front of, between,
\* on and behind the primitives
Rays ==
    {Ray_new(<<x, y, 1>>, <<dx, 0, 0>>) : x \in {-2, 2, 7}, y \in {1, 2, 8}, dx \in {-1, 1}}

\* The queried intervals: everything, the non-negative distances, a window
QueryIntervals == {UNIVERSE_INTERVAL, [min |-> 0, max |-> INFINITY], [min |-> 1, max |-> 6]}

\* The free paths a medium of positive density can draw: ln of a number
\* of [0, 1) is negative or minus infinity
HitDistances == {0, 1, INFINITY}

InitBvh ==
    /\ InitRender({sc \in Scenes : /\ sc.world = <<>>
                                   /\ sc.render_config.samples_per_pixel = 0
                                   /\ sc.render_config.shader = "PathTracing"
                                   /\ sc.render_config.post_processors = <<>>
                                   /\ sc.render_config.render_image_strategy.kind = "OnlyFinal"},
                  {1}, {1})
    /\ bvh_list \in Sequences_upto(BvhPrimitives, MaxPrimitives)
    /\ bvh_result = None
    /\ InitHitIdle
    /\ first_run = None
    /\ InitPathIdle
    /\ InitNewIdle

\* A call of Bvh::new(bvh_list)
BvhNew ==
    /\ bvh_result = None
    /\ \E r \in bvh_new(bvh_list) : bvh_result' = Some(r)
    /\ UNCHANGED <<rvars, first_run, pvars, nvars, bvh_list, ray_query, bvh_hit, list_hit, other_hit>>

\* A ray and an interval are picked for the hit queries on the built tree
RayQuery ==
    /\ bvh_result # None
    /\ ray_query = None
    /\ \E r \in Rays, ray_length \in QueryIntervals :
          ray_query' = Some([r |-> r, ray_length |-> ray_length])
    /\ UNCHANGED <<rvars, first_run, pvars, nvars, bvh_list, bvh_result, bvh_hit, list_hit, other_hit>>

\* Bvh::hit on the tree Bvh::new returned
BvhHit ==
    /\ ray_query # None
    /\ bvh_hit = None
    /\ bvh_hit' = Some(hit(bvh_result[1].bvh, ray_query[1].r, ray_query[1].ray_length))
    /\ UNCHANGED <<rvars, first_run, pvars, nvars, bvh_list, bvh_result, ray_query, list_hit, other_hit>>

\* HittableList::hit on the flat list of the same primitives
HittableListHit ==
    /\ ray_query # None
    /\ list_hit = None
    /\ list_hit' = Some(hit(HittableList(bvh_list), ray_query[1].r, ray_query[1].ray_length))
    /\ UNCHANGED <<rvars, first_run, pvars, nvars, bvh_list, bvh_result, ray_query, bvh_hit, other_hit>>

\* hit of one primitive of the list
PrimitiveHit ==
    /\ ray_query # None
    /\ other_hit = None
    /\ \E i \in 1..Len(bvh_list) :
          other_hit' = Some([hittable |-> bvh_list[i].kind, index |-> i,
                             hit |-> hit(bvh_list[i], ray_query[1].r,
                                         ray_query[1].ray_length)])
    /\ UNCHANGED <<rvars, first_run, pvars, nvars, bvh_list, bvh_result, ray_query, bvh_hit, list_hit>>

\* ConstantMedium::hit of a medium bounded by the tree
ConstantMediumHit ==
    /\ ray_query # None
    /\ other_hit = None
    /\ \E hit_distance \in HitDistances :
          other_hit' = Some([hittable |-> "ConstantMedium", index |-> 0,
                             hit |-> constant_medium_hit(bvh_result[1].bvh, ray_query[1].r,
                                                         ray_query[1].ray_length,
                                                         hit_distance)])
    /\ UNCHANGED <<rvars, first_run, pvars, nvars, bvh_list, bvh_result, ray_query, bvh_hit, list_hit>>

NextBvh ==
    \/ BvhNew
    \/ RayQuery
    \/ BvhHit
    \/ HittableListHit
    \/ PrimitiveHit
    \/ ConstantMediumHit

SpecBvh == InitBvh /\ [][NextBvh]_vars


(***************************************************************************)
(* Bvh::new step by step: every call of new_bvh is a task named by its     *)
(* place below the first call (1 for the left closure of rayon::join, 2    *)
(* for the right one).  The two closures of a join run in any order or     *)
(* interleaved, as rayon's pool may run them.                              *)
(***************************************************************************)
MaxBuildPrimitives == 4

\* list[..mid].to_vec()
left_half(list, mid) == SubSeq(list, 1, mid)

\* A right half that starts one element early
right_half_overlapping(list, mid) == SubSeq(list, mid, Len(list))

\* list[mid..].to_vec()
right_half(list, mid) == SubSeq(list, mid + 1, Len(list))

\* A call of new_bvh that has not started
build_call(list) == [pc |-> "start", list |-> list, mid |-> 0, result |-> None]

InitBuild ==
    /\ InitRender({sc \in Scenes : /\ sc.world = <<>>
                                   /\ sc.render_config.samples_per_pixel = 0
                                   /\ sc.render_config.shader = "PathTracing"
                                   /\ sc.render_config.post_processors = <<>>
                                   /\ sc.render_config.render_image_strategy.kind = "OnlyFinal"},
                  {1}, {1})
    /\ bvh_list \in Sequences_upto(BvhPrimitives, MaxBuildPrimitives)
    /\ bvh_result = None
    /\ InitHitIdle
    /\ first_run = None
    /\ InitPathIdle
    /\ InitNewIdle

\* Bvh::new: the empty list gives the node of two BvhItem::None at once,
\* any other list is handed to new_bvh
BvhNewCall ==
    /\ bvh_result = None
    /\ builds = <<>>
    /\ IF Len(bvh_list) = 0
       THEN /\ bvh_result' = Some([ok |-> TRUE,
                                   bvh |-> bvh_node(bvh_none, bvh_none, default_aabb)])
            /\ UNCHANGED builds
       ELSE /\ builds' = [p \in {<<>>} |-> build_call(bvh_list)]
            /\ UNCHANGED bvh_result
    /\ UNCHANGED <<rvars, first_run, pvars, bvh_list, ray_query, bvh_hit, list_hit, other_hit,
                   world_root, light_list, shade_result>>

\* new_bvh of one or two primitives
NewBvhLeaf(p) ==
    /\ builds[p].pc = "start"
    /\ Len(builds[p].list) \in {1, 2}
    /\ LET list == builds[p].list
           node == IF Len(list) = 1
                   THEN bvh_node(bvh_leaf(list[1]), bvh_none, list[1].b_box)
                   ELSE bvh_node(bvh_leaf(list[1]), bvh_leaf(list[2]),
                                 combine(list[1].b_box, list[2].b_box))
       IN builds' = [builds EXCEPT ![p].pc = "done", ![p].result = Some(node)]
    /\ UNCHANGED <<rvars, bvars, first_run, pvars, world_root, light_list, shade_result>>

\* new_bvh of a longer list, up to rayon::join: the list is sorted in
\* place and its two halves are copied into the two closures
NewBvhSplit(p) ==
    /\ builds[p].pc = "start"
    /\ Len(builds[p].list) \notin {1, 2}
    /\ \E s \in sort_hittables_slice_by_most_spread_axis(builds[p].list) :
          builds' = [q \in DOMAIN builds \cup {Append(p, 1), Append(p, 2)} |->
                        IF q = p
                        THEN [pc |-> "join", list |-> s.list, mid |-> s.mid, result |-> None]
                        ELSE IF q = Append(p, 1) THEN build_call(left_half(s.list, s.mid))
                        ELSE IF q = Append(p, 2) THEN build_call(right_half(s.list, s.mid))
                        ELSE builds[q]]
    /\ UNCHANGED <<rvars, bvars, first_run, pvars, world_root, light_list, shade_result>>

\* rayon::join returns once both closures have returned; new_bvh then
\* builds the node of the two sub-trees
NewBvhJoin(p) ==
    /\ builds[p].pc = "join"
    /\ builds[Append(p, 1)].pc = "done"
    /\ builds[Append(p, 2)].pc = "done"
    /\ LET l == builds[Append(p, 1)].result[1]
           r == builds[Append(p, 2)].result[1]
       IN builds' = [builds EXCEPT ![p].pc = "done",
                                   ![p].result = Some(bvh_node(l, r, combine(l.b_box, r.b_box))),
                                   ![Append(p, 1)].pc = "joined",
                                   ![Append(p, 2)].pc = "joined"]
    /\ UNCHANGED <<rvars, bvars, first_run, pvars, world_root, light_list, shade_result>>

\* Bvh::new returns what the first call of new_bvh returned
BvhNewReturn ==
    /\ bvh_result = None
    /\ <<>> \in DOMAIN builds
    /\ builds[<<>>].pc = "done"
    /\ bvh_result' = Some([ok |-> TRUE, bvh |-> builds[<<>>].result[1]])
    /\ builds' = [builds EXCEPT ![<<>>].pc = "joined"]
    /\ UNCHANGED <<rvars, first_run, pvars, bvh_list, ray_query, bvh_hit, list_hit, other_hit,
                   world_root, light_list, shade_result>>

NextBuild ==
    \/ BvhNewCall
    \/ \E p \in DOMAIN builds : NewBvhLeaf(p)
    \/ \E p \in DOMAIN builds : NewBvhSplit(p)
    \/ \E p \in DOMAIN builds : NewBvhJoin(p)
    \/ BvhNewReturn

SpecBuild == InitBuild /\ [][NextBuild]_vars


(***************************************************************************)
(* Renderer::new over worlds that nest: the world is built by the          *)
(* constructors of the hittables, and get_lights walks what they built.    *)
(***************************************************************************)
MaxWorldChildren == 2

DiffuseLight_new == [kind |-> "DiffuseLight"]
Lambertian_new == [kind |-> "Lambertian"]
\* Blend::new
Blend_new(material_1, material_2) ==
    [kind |-> "Blend", material_1 |-> material_1, material_2 |-> material_2]

\* A Blend that is a light when its first material is one
blend_is_light_of_first(material_1, material_2) == is_light(material_1.kind)

\* impl Material for Blend has no is_light: the trait's default answers
blend_is_light(material_1, material_2) == FALSE

\* Materials::is_light, dispatched on the variant
materials_is_light(mat) ==
    IF mat.kind = "Blend" THEN blend_is_light(mat.material_1, mat.material_2)
    ELSE is_light(mat.kind)

\* The mat argument of Sphere::new, Quad::new and Triangle::new
with_material(h, mat) ==
    [f \in DOMAIN h \cup {"mat"} |-> IF f = "mat" THEN mat ELSE h[f]]

\* The primitives of the worlds: an emitting sphere, a diffuse sphere, a
\* quad whose material blends an emitter with a diffuse material, and an
\* emitting triangle
LightPrimitives ==
    {with_material(Sphere("a", <<1, 1, 1>>, 1), DiffuseLight_new),
     with_material(Sphere("b", <<5, 1, 1>>, 1), Lambertian_new),
     with_material(Quad("c", <<1, 6, 0>>, <<0, 4, 0>>, <<0, 0, 2>>),
                   Blend_new(DiffuseLight_new, Lambertian_new)),
     with_material(Triangle("e", <<3, 0, 0>>, <<3, 4, 0>>, <<3, 0, 4>>), DiffuseLight_new)}

\* ConstantMedium::new
ConstantMedium_new(boundary) ==
    [kind |-> "ConstantMedium", boundary |-> boundary, b_box |-> boundary.b_box]

\* list.iter().map(|h| h.bounding_box()).fold(acc, |acc, b| acc.combine(b))
RECURSIVE fold_combine(_, _)
fold_combine(list, acc) ==
    IF list = <<>> THEN acc ELSE fold_combine(Tail(list), combine(acc, Head(list).b_box))

\* HittableList::new
HittableList_new(list) ==
    [kind |-> "HittableList", list |-> list, b_box |-> fold_combine(list, default_aabb)]

\* The expressions that build a world: a primitive, or a constructor over
\* the expressions of its arguments
describe(constructor, arguments) == [kind |-> constructor, arguments |-> arguments]

InnerDescriptions ==
    LET lists == Sequences_upto(LightPrimitives, MaxWorldChildren)
        groups == {describe(c, l) : c \in {"HittableList::new", "Bvh::new"}, l \in lists}
    IN LightPrimitives \cup groups
       \cup {describe("ConstantMedium::new", <<b>>) : b \in LightPrimitives \cup groups}

WorldDescriptions ==
    {describe(c, l) : c \in {"HittableList::new", "Bvh::new"},
                      l \in Sequences_upto(InnerDescriptions, MaxWorldChildren)}
    \cup {describe("Bvh::new", l) :
            l \in [1..(MaxWorldChildren + 1) ->
                     LightPrimitives
                     \cup {describe("ConstantMedium::new", <<b>>) : b \in LightPrimitives}]}

\* The hittables an expression can build (Bvh::new leaves the order of
\* equal centres open)
RECURSIVE construct(_)
RECURSIVE construct_all(_)
construct(d) ==
    IF d.kind = "ConstantMedium::new"
    THEN {ConstantMedium_new(b) : b \in construct(d.arguments[1])}
    ELSE IF d.kind = "HittableList::new"
    THEN {HittableList_new(l) : l \in construct_all(d.arguments)}
    ELSE IF d.kind = "Bvh::new"
    THEN UNION {{r.bvh : r \in bvh_new(l)} : l \in construct_all(d.arguments)}
    ELSE {d}

construct_all(ds) ==
    IF ds = <<>> THEN {<<>>}
    ELSE {<<h>> \o t : h \in construct(Head(ds)), t \in construct_all(Tail(ds))}

\* Hittables::get_lights, dispatched on the variant: Bvh and BvhItem,
\* HittableList, ConstantMedium, and Sphere, Quad and Triangle
RECURSIVE hittables_get_lights(_)
RECURSIVE hittable_list_get_lights(_)
hittables_get_lights(h) ==
    IF h.kind = "Node" THEN hittables_get_lights(h.left) \o hittables_get_lights(h.right)
    ELSE IF h.kind = "Leaf" THEN hittables_get_lights(h.hittable)
    ELSE IF h.kind = "None" THEN <<>>
    ELSE IF h.kind = "HittableList" THEN hittable_list_get_lights(h.list)
    ELSE IF h.kind = "ConstantMedium" THEN <<>>
    ELSE IF materials_is_light(h.mat) THEN <<h>> ELSE <<>>

\* for child in &self.list { ret.append(&mut child.get_lights()) }
hittable_list_get_lights(list) ==
    IF list = <<>> THEN <<>>
    ELSE hittables_get_lights(Head(list)) \o hittable_list_get_lights(Tail(list))

InitLights ==
    /\ InitRender({sc \in Scenes : /\ sc.world = <<>>
                                   /\ sc.render_config.samples_per_pixel = 0
                                   /\ sc.render_config.post_processors = <<>>
                                   /\ sc.render_config.render_image_strategy.kind = "OnlyFinal"},
                  {1}, {1})
    /\ InitBvhIdle
    /\ first_run = None
    /\ InitPathIdle
    /\ builds = <<>>
    /\ \E d \in WorldDescriptions :
          \E w \in construct(d) : world_root = Some([description |-> d, world |-> w])
    /\ light_list = None
    /\ shade_result = <<>>

\* Renderer::new of the scene whose world is world_root
WorldRendererNew ==
    /\ pc = "new"
    /\ world_root # None
    /\ light_list' = Some(hittables_get_lights(world_root[1].world))
    /\ IF Len(light_list'[1]) = 0 /\ needs_light(scene.render_config.shader)
       THEN /\ result' = "Scene should have at least one light"
            /\ pc' = "done"
            /\ scene' = scene
       ELSE /\ scene' = [scene EXCEPT !.render_config.post_processors =
                                        with_default_post_processor(@)]
            /\ pc' = "render"
            /\ result' = result
    /\ UNCHANGED <<oidn_feature, since_last_image, image_width, image_height, lights, sample,
                   rows, pixel_colors, albedo_colors, normal_colors, merged, sum_pixel,
                   sum_albedo, sum_normal, clock, last_image_generated_time, render_image,
                   post_calls, abort_queue, abort_sender_alive, aborts_sent, output,
                   received, receiver_alive, sent_after_abort, passes_after_abort,
                   bvars, first_run, pvars, builds, world_root, shade_result>>

NextLights == WorldRendererNew

SpecLights == InitLights /\ [][NextLights]_vars


(***************************************************************************)
(* A render by a shader that needs no light, with the calls a row task     *)
(* makes for its pixels followed into the material: the shader's scatter   *)
(* call, the ContainerPdf over the Renderer's lights, and the random index *)
(* into them.  A panic in a row task is carried out of pool.scope.         *)
(***************************************************************************)
\* random_element_index: fastrand::usize(..v.len()) panics on the empty
\* range, and else gives an index of v
random_element_index(v) == IF Len(v) = 0 THEN {"panic"} ELSE 1..Len(v)

\* ContainerPdf::generate: objects[random_element_index(objects)].random_direction(origin)
container_pdf_generate(objects) ==
    {IF idx = "panic" THEN "panic" ELSE "direction" : idx \in random_element_index(objects)}

\* mix_generate(&light_pdf, &pdf): the light pdf when random_normal_float()
\* is below 0.5, else the material's own pdf
mix_generate(objects, below_half) ==
    IF below_half THEN container_pdf_generate(objects) ELSE {"direction"}

\* Lambertian::scatter: ContainerPdf::new(lights, ..), mix_generate, then
\* mix_value, whose division by the number of lights gives NaN for none
lambertian_scatter(light_objects, below_half) ==
    {IF d = "panic" THEN "panic" ELSE "ScatterPdf" : d \in mix_generate(light_objects, below_half)}

\* Materials::scatter, dispatched on the variant
materials_scatter(material, light_objects, below_half) ==
    IF material = "Lambertian" THEN lambertian_scatter(light_objects, below_half)
    ELSE {"ScatterEmission"}

\* Shader::shade of the shaders that need no light: the albedo and the
\* simple shader take the colour of material.scatter, the normal shader
\* takes rec.normal
shade_outcomes(shader, material, light_objects, below_half) ==
    IF shader = "Normal" THEN {"color"}
    ELSE {IF scattered = "panic" THEN "panic" ELSE "color" :
            scattered \in materials_scatter(material, light_objects, below_half)}

\* Renderer::ray_color at depth 0: the background for a miss, the shader
\* for a hit
ray_color_outcomes(sc, light_objects, hit_choice, below_half) ==
    IF hit_choice = 0 THEN {"color"}
    ELSE shade_outcomes(sc.render_config.shader, sc.world[hit_choice].material, light_objects,
                        below_half)

ShadeScenes ==
    {sc \in Scenes : /\ ~needs_light(sc.render_config.shader)
                     /\ sc.render_config.samples_per_pixel = 1
                     /\ sc.render_config.post_processors = <<>>
                     /\ sc.render_config.render_image_strategy.kind = "OnlyFinal"}

InitShade ==
    /\ InitRender(ShadeScenes, {MaxWidth}, 1..MaxHeight)
    /\ InitBvhIdle
    /\ first_run = None
    /\ InitPathIdle
    /\ builds = <<>> /\ world_root = None /\ light_list = None
    /\ shade_result = [y \in RowIds |-> None]

\* A row task's calls of ray_color for its pixels
RowRayColor(y) ==
    /\ rows[y].pc = "running"
    /\ shade_result[y] = None
    /\ \E hit_choice \in HitChoices, below_half \in BOOLEAN :
         \E o \in ray_color_outcomes(scene, lights, hit_choice, below_half) :
            /\ shade_result' = [shade_result EXCEPT ![y] = Some(o)]
            /\ rows' = IF o = "panic" THEN [rows EXCEPT ![y].pc = "panicked"] ELSE rows
    /\ UNCHANGED <<scene, since_last_image, oidn_feature, image_width, image_height, lights,
                   pc, result, sample, pixel_colors, albedo_colors, normal_colors, merged,
                   sum_pixel, sum_albedo, sum_normal, clock, last_image_generated_time,
                   render_image, post_calls, abort_queue, abort_sender_alive, aborts_sent,
                   output, received, receiver_alive, sent_after_abort, passes_after_abort,
                   bvars, first_run, pvars, builds, world_root, light_list>>

\* pool.scope waits for every task and then resumes the panic of a task in
\* the thread that called render
ScopePropagatesPanic ==
    /\ pc = "scope"
    /\ \A y \in RowIds : rows[y].pc \in {"done", "panicked"}
    /\ \E y \in RowIds : rows[y].pc = "panicked"
    /\ pc' = "done"
    /\ result' = "panic"
    /\ UNCHANGED <<scene, since_last_image, oidn_feature, image_width, image_height, lights,
                   sample, rows, pixel_colors, albedo_colors, normal_colors, merged,
                   sum_pixel, sum_albedo, sum_normal, clock, last_image_generated_time,
                   render_image, post_calls, abort_queue, abort_sender_alive, aborts_sent,
                   output, received, receiver_alive, sent_after_abort, passes_after_abort,
                   other_vars>>

\* The row has its colours and goes on to merge them
row_has_colors(y) == shade_result[y] # None /\ shade_result[y] # Some("panic")

NextShade ==
    \/ RendererNew
    \/ RenderBegin
    \/ PollAbort
    \/ SpawnRow
    \/ \E y \in RowIds : RowRayColor(y)
    \/ \E y \in RowIds : row_has_colors(y) /\ RowLock(y)
    \/ \E y \in RowIds : row_has_colors(y) /\ RowAddPixel(y)
    \/ \E y \in RowIds : RowAddAlbedo(y)
    \/ \E y \in RowIds : RowAddNormal(y)
    \/ ScopePropagatesPanic
    \/ GenerateImage
    \/ SendProgress

SpecShade == InitShade /\ [][NextShade]_vars


(***************************************************************************)
(* The evaluation of one path: Renderer::ray_color and                     *)
(* PathTracingShader::shade calling each other.  Colours are counted in    *)
(* quarters, probabilities in units.                                       *)
(***************************************************************************)
MaxDepth == 2

\* f64 addition and division over the integers, the infinities and NaN
fadd(x, y) ==
    IF x = NaN \/ y = NaN THEN NaN
    ELSE IF is_infinite(x) /\ is_infinite(y) THEN (IF x = y THEN x ELSE NaN)
    ELSE IF is_infinite(x) THEN x
    ELSE IF is_infinite(y) THEN y
    ELSE x + y
fdiv(x, y) ==
    IF x = NaN \/ y = NaN THEN NaN
    ELSE IF is_infinite(x) THEN (IF is_infinite(y) THEN NaN
                                 ELSE IF (x > 0) = (y >= 0) THEN INFINITY ELSE -INFINITY)
    ELSE IF is_infinite(y) THEN 0
    ELSE IF y = 0 THEN (IF x = 0 THEN NaN ELSE IF x > 0 THEN INFINITY ELSE -INFINITY)
    ELSE x \div y

\* The product of two colours counted in quarters
color_mul(a, b) ==
    LET p == fmul(a, b) IN IF p = NaN \/ is_infinite(p) THEN p ELSE p \div 4

\* The value filter_color_value caps a component at: 3.0
COLOR_CEILING == 12

\* The component is returned as it is
filter_color_value_kept(val) == val

\* filter_color_value: NaN becomes 0, anything else val.min(3.)
filter_color_value(val) == IF val = NaN THEN 0 ELSE Min(val, COLOR_CEILING)

\* filter_invalid_color_values, for a grey colour
filter_invalid_color_values(col) == filter_color_value(col)

\* What the material of a hit can emit
EmittedColors == {0, 16}

\* What rec.material.scatter(ray, rec) can return: None, a scatter ray, or a
\* pdf; with the pdf go the values shade computes before it recurses,
\* rec.material.scattering_pdf(rec, &scattered) and mix_value(...)
ScatterResults ==
    {None}
    \cup {Some([scatter_type |-> "ScatterRay", color |-> c, scattering_pdf |-> 0,
                pdf_val |-> 0]) : c \in {0, 4, 8}}
    \cup {Some([scatter_type |-> "ScatterPdf", color |-> c, scattering_pdf |-> s,
                pdf_val |-> p]) : c \in {0, 4, 8}, s \in {0, 1, 2}, p \in {0, 1}}

\* shade runs on past max_depth
cutoff_late(d, max) == d > max

\* if depth >= self.max_depth { return AttenuatedColor::default(); }
cutoff(d, max) == d >= max

\* 1. + af * self.accumulated_ray_length of the colour a path ends with
AttenuationDivisors == {1, 2}

\* AttenuatedColor::get_attenuated_color
get_attenuated_color(color, attenuation_divisor) ==
    IF attenuation_divisor = None THEN color
    ELSE fdiv(color, attenuation_divisor[1])

InitPath ==
    /\ InitRender({sc \in Scenes : /\ sc.world = <<>>
                                   /\ sc.render_config.samples_per_pixel = 0
                                   /\ sc.render_config.shader = "PathTracing"
                                   /\ sc.render_config.post_processors = <<>>
                                   /\ sc.render_config.render_image_strategy.kind = "OnlyFinal"},
                  {1}, {1})
    /\ InitBvhIdle
    /\ first_run = None
    /\ InitNewIdle
    /\ max_depth \in 0..MaxDepth
    /\ path_pc = "ray_color"
    /\ depth = 0
    /\ stack = <<>>
    /\ value = 0
    /\ pdf_result = None
    /\ row_pixel_color = None

\* Renderer::ray_color: world.hit(ray, &RAY_INTERVAL); a miss returns the
\* background colour, a hit calls shade
RayColor ==
    /\ path_pc = "ray_color"
    /\ \E is_hit \in BOOLEAN :
          IF is_hit
          THEN path_pc' = "shade" /\ value' = value
          ELSE path_pc' = "return" /\ value' = scene.background_color
    /\ UNCHANGED <<rvars, bvars, first_run, nvars, max_depth, depth, stack, pdf_result,
                   row_pixel_color>>

\* PathTracingShader::shade up to its call of renderer.ray_color
Shade ==
    /\ path_pc = "shade"
    /\ IF cutoff(depth, max_depth)
       THEN /\ value' = 0
            /\ path_pc' = "return"
            /\ UNCHANGED <<depth, stack>>
       ELSE \E emitted \in EmittedColors, scatter_res \in ScatterResults :
               IF scatter_res = None
               THEN /\ value' = emitted
                    /\ path_pc' = "return"
                    /\ UNCHANGED <<depth, stack>>
               ELSE /\ stack' = Append(stack,
                                       [scatter_record |-> scatter_res[1],
                                        attenuated_color |->
                                            IF scatter_res[1].scatter_type = "ScatterPdf"
                                            THEN emitted ELSE 0])
                    /\ depth' = depth + 1
                    /\ path_pc' = "ray_color"
                    /\ value' = value
    /\ UNCHANGED <<rvars, bvars, first_run, nvars, max_depth, pdf_result, row_pixel_color>>

\* The rest of shade, once renderer.ray_color(.., depth + 1, ..) has returned
ShadeReturn ==
    /\ path_pc = "return"
    /\ stack # <<>>
    /\ LET frame == stack[Len(stack)]
           scatter_record == frame.scatter_record
           scatter_color ==
               fdiv(color_mul(fmul(scatter_record.color, scatter_record.scattering_pdf),
                              value),
                    scatter_record.pdf_val)
           unfiltered == fadd(frame.attenuated_color, scatter_color)
       IN IF scatter_record.scatter_type = "ScatterRay"
          THEN /\ value' = color_mul(scatter_record.color, value)
               /\ pdf_result' = pdf_result
          ELSE /\ value' = filter_invalid_color_values(unfiltered)
               /\ pdf_result' = Some([unfiltered |-> unfiltered,
                                      color |-> filter_invalid_color_values(unfiltered)])
    /\ stack' = SubSeq(stack, 1, Len(stack) - 1)
    /\ depth' = depth - 1
    /\ UNCHANGED <<rvars, bvars, first_run, nvars, max_depth, path_pc, row_pixel_color>>

\* row_pixel_colors[x] = ray_color_res.pixel_color.get_attenuated_color()
StorePixel ==
    /\ path_pc = "return"
    /\ stack = <<>>
    /\ \E attenuation_divisor \in {None} \cup {Some(d) : d \in AttenuationDivisors} :
          row_pixel_color' = Some(get_attenuated_color(value, attenuation_divisor))
    /\ path_pc' = "done"
    /\ UNCHANGED <<rvars, bvars, first_run, nvars, max_depth, depth, stack, value, pdf_result>>

NextPath == RayColor \/ Shade \/ ShadeReturn \/ StorePixel

\* The worker that evaluates the path keeps running
SpecPath == InitPath /\ [][NextPath]_vars /\ WF_vars(NextPath)

(***************************************************************************)
(* Properties of ray_trace                                                 *)
(***************************************************************************)
NoLightError == "Scene should have at least one light"

\* progress == 1.0: sample as f64 / samples_per_pixel as f64 is 1 exactly
\* when the two are equal
progress_is_one(p) == p.sample = p.samples_per_pixel

\* C1: over a world without a light-emitting primitive, with a shader that
\* needs a light, Renderer::new (and so ray_trace) returns the error "Scene
\* should have at least one light"; no row task is spawned and no
\* RenderProgress is sent, before or after.
C1_NoLightIsAnError ==
    (pc # "new" /\ Len(get_lights(scene.world)) = 0
     /\ scene.render_config.shader = "PathTracing") =>
        /\ pc = "done"
        /\ result = NoLightError
        /\ \A y \in RowIds : rows[y].pc = "idle" /\ merged[y] = 0
        /\ output = <<>>

C1_Witness ==
    pc = "done" /\ result = NoLightError /\ samples_per_pixel > 0 /\ Len(scene.world) > 0

\* C3: a render of N >= 1 samples that is not cancelled, whose consumer stays
\* connected and whose post processors do not fail ends, returns Ok and has
\* sent exactly N RenderProgress values, with progress 1/N, 2/N, ..., N/N in
\* that order: one has progress 1 and it is the last.
C3_AllSent ==
    (/\ pc = "done"
     /\ samples_per_pixel >= 1
     /\ aborts_sent = 0
     /\ receiver_alive
     /\ result \notin {NoLightError, "PostProcessError"}) =>
        /\ result = "Ok"
        /\ Len(output) = samples_per_pixel
        /\ \A k \in 1..Len(output) :
            /\ output[k].sample = k
            /\ output[k].samples_per_pixel = samples_per_pixel
            /\ progress_is_one(output[k]) <=> k = Len(output)

\* An upper bound on the steps the calling thread and the row tasks still
\* take: every step of theirs lowers it, so a render cannot run for ever
row_steps_left(task) ==
    (CASE task.pc = "idle" -> 7
       [] task.pc = "running" -> 6
       [] task.pc = "pixel" -> 4
       [] task.pc = "albedo" -> 2
       [] OTHER -> 0)
    - (IF task.lock = "none" THEN 0 ELSE 1)

RECURSIVE sum_over(_, _)
sum_over(f, S) ==
    IF S = {} THEN 0
    ELSE LET e == CHOOSE x \in S : TRUE IN f[e] + sum_over(f, S \ {e})

pass_steps_left ==
    CASE pc \in {"spawn", "scope"} ->
            2 + sum_over([y \in RowIds |-> row_steps_left(rows[y])], RowIds)
      [] pc = "send" -> 1
      [] OTHER -> 0

steps_per_pass == 3 + 7 * image_height

steps_left ==
    CASE pc = "new" -> 3 + samples_per_pixel * steps_per_pass
      [] pc = "render" -> 2 + samples_per_pixel * steps_per_pass
      [] pc = "poll" ->
            1 + (IF sample > samples_per_pixel THEN 0
                 ELSE (samples_per_pixel - sample + 1) * steps_per_pass)
      [] pc = "done" -> 0
      [] OTHER -> 1 + (samples_per_pixel - sample) * steps_per_pass + pass_steps_left

\* A step of the calling thread or of a row task: the steps that change pc
\* or rows
ProgramStep == pc' # pc \/ rows' # rows

\* Some step of the calling thread or of a row task can be taken: the
\* calling thread waits only at the end of pool.scope, for its row tasks,
\* and a row task waits only for a Mutex that another row task holds
program_can_step ==
    \/ pc \in {"new", "render", "poll", "spawn"}
    \/ pc = "send" /\ ~send_blocks(output, received)
    \/ pc = "scope" /\ (scope_finished(rows)
                        \/ \E y \in RowIds :
                              /\ rows[y].pc \in {"running", "pixel", "albedo"}
                              /\ \/ rows[y].lock # "none"
                                 \/ mutex_free(rows, lock_wanted(rows[y])))

C4_SamplesInOrder ==
    /\ \A y \in RowIds :
        rows[y].pc # "idle" =>
            /\ pc \in {"spawn", "scope", "send", "done"}
            /\ \A z \in RowIds : merged[z] \in {sample - 1, sample}
            /\ merged[y] = (IF rows[y].pc = "running" THEN sample - 1 ELSE sample)
    /\ pc = "send" => \A y \in RowIds : rows[y].pc = "done" /\ merged[y] = sample
    /\ \A k \in 1..Len(output) :
        /\ output[k].sample = k
        /\ \A y \in RowIds : merged[y] >= k
    /\ pc = "poll" => \A y \in RowIds : rows[y].pc = "idle" /\ merged[y] = sample - 1

\* A later row has been merged for the second sample while an earlier row
\* has not
C4_Witness ==
    /\ sample = 2
    /\ \E y, z \in RowIds : y < z /\ merged[z] = 2 /\ merged[y] = 1 /\ rows[y].pc = "running"
    /\ Len(output) = 1

\* C5: before each sample pass render polls the abort channel without
\* blocking: with a message waiting it returns Ok at once, without rendering
\* the sample, running a post processor or sending a RenderProgress; with
\* none waiting it goes on to render the sample.
C5_PollBeforeSample ==
    [][(pc = "poll" /\ pc' # pc /\ sample <= samples_per_pixel) =>
         IF Len(abort_queue) > 0
         THEN /\ pc' = "done"
              /\ result' = "Ok"
              /\ abort_queue' = Tail(abort_queue)
              /\ UNCHANGED <<output, rows, merged, pixel_colors, albedo_colors,
                             normal_colors, post_calls, render_image, sample>>
         ELSE pc' = "spawn" /\ result' = result]_vars

\* Cancelled before the second sample: the first was sent, the second never started
C5_Witness ==
    /\ pc = "done" /\ result = "Ok" /\ sample = 2 /\ samples_per_pixel = 2
    /\ Len(output) = 1 /\ aborts_sent = 1 /\ abort_queue = <<>>
    /\ \A y \in RowIds : merged[y] = 1

\* With an abort message waiting, an upper bound on the steps the calling
\* thread and the row tasks take until render returns; it does not depend on
\* the number of samples
steps_to_return ==
    CASE pc = "new" -> 3
      [] pc = "render" -> 2
      [] pc = "poll" -> 1
      [] pc = "done" -> 0
      [] OTHER -> 1 + pass_steps_left

\* C6: once an abort message has been sent during a render, at most one
\* further sample pass completes and at most one further RenderProgress is
\* sent, whatever the number of samples, and render returns: while the
\* message waits every step brings the return closer, within one pass.
C6_CancelWithinOnePass ==
    /\ [](/\ sent_after_abort <= 1
          /\ passes_after_abort <= 1
          /\ (Len(abort_queue) > 0 /\ pc # "done") =>
                program_can_step /\ steps_to_return <= 1 + steps_per_pass)
    /\ [][(ProgramStep /\ Len(abort_queue) > 0) => steps_to_return' < steps_to_return]_vars

\* A RenderProgress was sent after the abort message, and render returned
\* without sending the next
C6_Witness ==
    /\ pc = "done" /\ result = "Ok" /\ sent_after_abort = 1
    /\ Len(output) < samples_per_pixel


\* C7: under every image strategy and every post processor chain, the empty
\* one included, the RenderProgress whose progress is 1 carries an image, and
\* the image is the outcome of the chain over the sums of all N samples.
C7_FinalProgressHasImage ==
    \A k \in 1..Len(output) :
        progress_is_one(output[k]) =>
            /\ output[k].render_image # None
            /\ \A y \in RowIds : merged[y] = samples_per_pixel
            /\ output[k].render_image =
                  Some(run_post_processors(scene.render_config.post_processors,
                                           oidn_feature, TRUE, sum_pixel, albedo_colors,
                                           normal_colors, samples_per_pixel).image)

\* The chain was empty and the strategy an interval: the first progress went
\* without an image, the last one has the image of the NopPostProcessor
C7_Witness ==
    /\ pc = "done" /\ result = "Ok" /\ Len(output) = 2
    /\ scene.render_config.post_processors = <<"Nop">>
    /\ scene.render_config.render_image_strategy.kind = "Interval"
    /\ output[1].render_image = None
    /\ output[2].render_image # None

\* C8: for a sample that is not the last, EverySample puts an image in the
\* RenderProgress, OnlyFinal puts none, and Interval(d) puts one exactly when
\* at least d has passed since the last image was generated.
C8_ImagePolicy ==
    (pc = "send" /\ sample < samples_per_pixel) =>
        CASE scene.render_config.render_image_strategy.kind = "EverySample" ->
                render_image # None
          [] scene.render_config.render_image_strategy.kind = "OnlyFinal" ->
                render_image = None
          [] OTHER ->
                (\E k \in 1..Len(output) : output[k].render_image # None) =>
                    ((render_image # None) <=>
                        (since_last_image >= scene.render_config.render_image_strategy.d))

\* C9: when a post processor needs the albedo and normal colours, the two
\* buffers handed to the chain after sample k hold, per pixel, the sums of
\* the depth-0 albedo and normal of samples 1..k; when none needs them,
\* nothing is accumulated in the two buffers.
C9_AuxiliaryBuffers ==
    pc = "send" =>
        IF needs_albedo_and_normal_colors(scene.render_config, oidn_feature)
        THEN albedo_colors = sum_albedo /\ normal_colors = sum_normal
        ELSE /\ albedo_colors = zero_buffer(pixel_count)
             /\ normal_colors = zero_buffer(pixel_count)

\* C10: when the image of a sample (the last one included) is rendered, every
\* post processor but the last runs as an intermediate stage, in the
\* configured order, the first on the accumulated pixel colours and each
\* later one on the output of the stage before it; the last one's
\* post_process turns the result into the image; the accumulation buffers
\* are as the row tasks left them.
C10_ChainOf(pps, n) ==
    /\ Len(post_calls) = n
    /\ \A i \in 1..n :
        /\ post_calls[i].pp = pps[i]
        /\ post_calls[i].index = i
        /\ post_calls[i].stage = (IF i < n THEN "intermediate" ELSE "final")
        /\ post_calls[i].colors =
              (IF i = 1 THEN sum_pixel
               ELSE intermediate_post_process(pps[i - 1], oidn_feature,
                                              post_calls[i - 1].colors, sample).colors)
    /\ render_image = Some(post_process(pps[n], oidn_feature, TRUE, post_calls[n].colors,
                                        albedo_colors, normal_colors, sample).image)
    /\ pixel_colors = sum_pixel

C10_PostProcessingChain ==
    /\ []((pc = "send" /\ render_image # None) =>
            C10_ChainOf(scene.render_config.post_processors,
                        Len(scene.render_config.post_processors)))
    /\ [][(pc = "scope" /\ pc' # pc) =>
            UNCHANGED <<pixel_colors, albedo_colors, normal_colors>>]_vars

\* The final image of a chain of two: the bloom stage changed the colours it
\* handed on to the last stage
C10_Witness ==
    /\ pc = "send" /\ sample = samples_per_pixel /\ render_image # None
    /\ Len(post_calls) = 2
    /\ post_calls[1].pp = "Bloom"
    /\ post_calls[2].colors # post_calls[1].colors

\* The smallest box around the boxes of all elements of a non-empty list
union_of_boxes(list) ==
    [axis \in 1..3 |->
        [min |-> SetMin({list[i].b_box[axis].min : i \in 1..Len(list)}),
         max |-> SetMax({list[i].b_box[axis].max : i \in 1..Len(list)})]]

\* C11: for every non-empty list of primitives, in every order, the box of
\* the root that Bvh::new returns is the union of the boxes of all the
\* primitives of the list.
C11_RootBoxIsUnion ==
    (bvh_result # None /\ Len(bvh_list) > 0)
        => bvh_result[1].bvh.b_box = union_of_boxes(bvh_list)

\* A tree was built for three primitives with three different boxes
C11_Witness ==
    /\ bvh_result # None
    /\ Len(bvh_list) = 3
    /\ {bvh_list[i].id : i \in 1..3} = {"a", "b", "c"}
    /\ bvh_result[1].bvh.b_box = box(0, 6, 0, 10, 0, 2)

\* C12: for every ray, every queried interval and every non-empty list of
\* primitives, Bvh::hit on the tree built from the list and
\* HittableList::hit on the list agree: both return no hit, or both a hit
\* at the same distance.
C12_BvhAgreesWithList ==
    (Len(bvh_list) > 0 /\ bvh_hit # None /\ list_hit # None) => bvh_hit = list_hit

\* A returned hit lies in the queried interval
hit_within(rec, ray_length) ==
    rec # None => (ray_length.min <= rec[1] /\ rec[1] <= ray_length.max)

\* C13: whenever hit(ray, interval) of a Sphere, Triangle, Quad,
\* ConstantMedium, Bvh or HittableList returns a hit, the distance d of
\* the hit satisfies interval.min <= d <= interval.max.
C13_HitWithinInterval ==
    ray_query # None =>
        /\ bvh_hit # None => hit_within(bvh_hit[1], ray_query[1].ray_length)
        /\ list_hit # None => hit_within(list_hit[1], ray_query[1].ray_length)
        /\ other_hit # None => hit_within(other_hit[1].hit, ray_query[1].ray_length)

\* The tree, the list and a medium bounded by the tree all returned a hit
\* for a query with a bounded window
C13_Witness ==
    /\ ray_query # None /\ bvh_hit # None /\ list_hit # None /\ other_hit # None
    /\ ray_query[1].ray_length = [min |-> 1, max |-> 6]
    /\ bvh_hit[1] # None
    /\ list_hit[1] # None
    /\ other_hit[1].hittable = "ConstantMedium"
    /\ other_hit[1].hit # None

\* The Bvh nodes of a tree, the root included
RECURSIVE nodes(_)
nodes(item) ==
    IF item.kind = "Node" THEN {item} \cup nodes(item.left) \cup nodes(item.right)
    ELSE {}

\* The number of primitives under a BvhItem
RECURSIVE primitive_count(_)
primitive_count(item) ==
    IF item.kind = "Node" THEN primitive_count(item.left) + primitive_count(item.right)
    ELSE IF item.kind = "Leaf" THEN 1
    ELSE 0

\* bounding box of a non-empty BvhItem
item_box(item) == IF item.kind = "Leaf" THEN item.hittable.b_box ELSE item.b_box

\* C20 as stated: every node of a built tree holds two children, or the
\* same leaf as both children when its subtree has a single primitive, and
\* its box is the union of the boxes of its children.
C20_TwoChildrenOrDoubledLeaf ==
    (bvh_result # None /\ Len(bvh_list) > 0) =>
        \A n \in nodes(bvh_result[1].bvh) :
            /\ n.left.kind # "None"
            /\ n.right.kind # "None"
            /\ primitive_count(n) = 1 => (n.left.kind = "Leaf" /\ n.right = n.left)
            /\ n.b_box = combine(item_box(n.left), item_box(n.right))

\* C20, amended: every node of a tree built from a non-empty list holds two
\* nodes, or two leaves, or, when its subtree has a single primitive, one
\* leaf and an empty second child; its box is the union of the boxes of
\* its non-empty children.
C20_NodeShape ==
    (bvh_result # None /\ Len(bvh_list) > 0) =>
        \A n \in nodes(bvh_result[1].bvh) :
            \/ /\ n.left.kind = "Node" /\ n.right.kind = "Node"
               /\ primitive_count(n) > 2
               /\ n.b_box = union_of_boxes(<<n.left, n.right>>)
            \/ /\ n.left.kind = "Leaf" /\ n.right.kind = "Leaf"
               /\ n.b_box = union_of_boxes(<<n.left.hittable, n.right.hittable>>)
            \/ /\ n.left.kind = "Leaf" /\ n.right.kind = "None"
               /\ primitive_count(n) = 1
               /\ n.b_box = n.left.hittable.b_box

\* A tree of three primitives: the root holds two nodes, one of them with
\* a single leaf and an empty child
C20_Witness ==
    /\ bvh_result # None
    /\ Len(bvh_list) = 3
    /\ bvh_result[1].bvh.left.kind = "Node"
    /\ bvh_result[1].bvh.right.kind = "Node"
    /\ \E n \in nodes(bvh_result[1].bvh) : n.left.kind = "Leaf" /\ n.right.kind = "None"
    /\ \E n \in nodes(bvh_result[1].bvh) : n.left.kind = "Leaf" /\ n.right.kind = "Leaf"

\* The entries of a buffer that belong to row y
own_entries(y) ==
    {i \in Pixels : /\ ((image_height - 1) - y) * image_width <= i
                    /\ i < ((image_height - 1) - y) * image_width + image_width}

\* Row task y merges its pixel colours in this step
merges_pixel_colors(y) == rows[y].pc = "running" /\ rows'[y].pc # "running"

\* C16: once all row tasks of the samples 1..k have completed, every entry
\* of the pixel colour buffer is the sum of the k colours sampled for its
\* pixel; every row is merged once per sample; a row task writes only the
\* width entries of its own row, from offset ((height - 1) - y) * width; no
\* update is lost or made twice, in whatever order the row tasks merge.
C16_BufferIsSumOfSamples ==
    /\ []((pc = "scope" /\ scope_finished(rows)) \/ pc = "send" =>
            /\ \A i \in Pixels : pixel_colors[i] = sum_pixel[i]
            /\ \A y \in RowIds : merged[y] = sample)
    /\ [][\A y \in RowIds : merges_pixel_colors(y) =>
            /\ merged'[y] = merged[y] + 1
            /\ \A i \in Pixels \ own_entries(y) : pixel_colors'[i] = pixel_colors[i]
            /\ \A i \in own_entries(y) :
                  pixel_colors'[i] - pixel_colors[i] = sum_pixel'[i] - sum_pixel[i]]_vars
    /\ [][pixel_colors' # pixel_colors => \E y \in RowIds : merges_pixel_colors(y)]_vars

\* Two samples were merged, the rows of the second in the reverse order,
\* and every pixel got a colour in both
C16_Witness ==
    /\ pc = "send" /\ sample = 2
    /\ \A i \in Pixels : pixel_colors[i] = 2 * SceneColors.emitted
    /\ \A y \in RowIds : merged[y] = 2

\* The three Mutex-guarded buffers
Buffers == {"pixel_colors", "albedo_colors", "normal_colors"}

\* C17: each of the three accumulation buffers has its own lock: at any
\* time at most one row task is merging into a given buffer, while row
\* tasks may hold the locks of different buffers; the image conversion and
\* the post processors read the buffers only when no row task is running
\* or pending and no lock is held.
C17_BuffersAreLocked ==
    /\ [](\A b \in Buffers : Cardinality({y \in RowIds : rows[y].lock = b}) <= 1)
    /\ [](\A y \in RowIds : rows[y].lock # "none" => rows[y].lock = lock_wanted(rows[y]))
    /\ [][(pc = "scope" /\ pc' # "scope") =>
            \A y \in RowIds : rows[y].pc = "done" /\ rows[y].lock = "none"]_vars

\* One row task holds the lock of pixel_colors while another holds that of
\* albedo_colors
C17_Witness ==
    \E y, z \in RowIds :
        /\ rows[y].lock = "pixel_colors" /\ rows[z].lock = "albedo_colors"
        /\ rows[z].pc = "pixel"

\* C15: render never waits for the consumer: a send completes whatever
\* the caller has left unread, so a render whose caller keeps the receiver
\* and never reads from it returns, and unless a post processor failed it
\* has then run all its sample passes and sent a RenderProgress for each.
C15_NeverWaitsForConsumer ==
    /\ <>(pc = "done")
    /\ [](pc = "done" =>
            \/ result = "PostProcessError"
            \/ result = "Ok" /\ Len(output) = samples_per_pixel /\ received = 0)

\* The render has returned Ok with every RenderProgress still unread
C15_Witness ==
    /\ pc = "done" /\ result = "Ok" /\ receiver_alive
    /\ received = 0 /\ Len(output) = MaxSamples + 1

C18_PathTerminates ==
    /\ [](depth <= max_depth /\ Len(stack) = depth)
    /\ [][depth' > depth => (path_pc = "shade" /\ depth' = depth + 1
                             /\ path_pc' = "ray_color")]_vars
    /\ [][(path_pc = "shade" /\ depth >= max_depth) =>
            (value' = 0 /\ path_pc' = "return" /\ stack' = stack /\ depth' = depth)]_vars
    /\ <>(path_pc = "done")

\* The path was cut at the deepest call the largest max_depth allows
C18_Witness ==
    /\ max_depth = MaxDepth
    /\ depth = MaxDepth /\ Len(stack) = MaxDepth
    /\ path_pc = "return" /\ value = 0

child_hit_distances ==
    {hit(bvh_list[i], ray_query[1].r, ray_query[1].ray_length)[1] :
        i \in {j \in 1..Len(bvh_list) :
                  hit(bvh_list[j], ray_query[1].r, ray_query[1].ray_length) # None}}

\* C22: HittableList::hit returns the hit with the smallest distance among
\* the children that hit the ray within the queried interval, and no hit
\* exactly when no child hits within the interval.
C22_ListReturnsNearest ==
    (ray_query # None /\ list_hit # None) =>
        IF child_hit_distances = {} THEN list_hit[1] = None
        ELSE list_hit[1] = Some(SetMin(child_hit_distances))

\* Three children are hit at three distances, and the nearest is not the
\* one scanned last
C22_Witness ==
    /\ ray_query # None /\ list_hit # None /\ list_hit[1] # None
    /\ Len(bvh_list) = 3
    /\ Cardinality(child_hit_distances) = 3
    /\ hit(bvh_list[3], ray_query[1].r, ray_query[1].ray_length) # list_hit[1]
    /\ hit(bvh_list[1], ray_query[1].r, ray_query[1].ray_length) # list_hit[1]

\* The distances at which the ray of the query meets the surface of the
\* sphere: the points of the ray at the radius from the centre
MaxDistance == 10
surface_distances(s, r) ==
    {t \in -MaxDistance..MaxDistance :
        length_squared(vsub(at(r, t), s.p)) = s.radius * s.radius}

\* The hit the sphere owes: the nearer meeting if the closed interval holds
\* it, else the farther one if the closed interval holds it, else none
sphere_hit_owed(s, r, ray_length) ==
    LET ts == surface_distances(s, r)
        within(t) == ray_length.min <= t /\ t <= ray_length.max
    IN IF ts = {} THEN None
       ELSE IF within(SetMin(ts)) THEN Some(SetMin(ts))
       ELSE IF within(SetMax(ts)) THEN Some(SetMax(ts))
       ELSE None

\* C23: the interval test is closed, a hit at exactly interval.min or
\* interval.max is accepted; Sphere::hit returns the nearer root if the
\* interval holds it, otherwise the farther root if the interval holds it,
\* otherwise no hit; a tangent ray yields the one hit of its double root.
C23_SphereRootsInClosedInterval ==
    (ray_query # None /\ other_hit # None /\ other_hit[1].hittable = "Sphere") =>
        other_hit[1].hit = sphere_hit_owed(bvh_list[other_hit[1].index], ray_query[1].r,
                                           ray_query[1].ray_length)

\* A tangent ray touches the sphere at exactly interval.max, and the hit
\* is returned
C23_Witness ==
    /\ ray_query # None /\ other_hit # None /\ other_hit[1].hittable = "Sphere"
    /\ Cardinality(surface_distances(bvh_list[other_hit[1].index], ray_query[1].r)) = 1
    /\ other_hit[1].hit = Some(ray_query[1].ray_length.max)

\* The calls of new_bvh that went through rayon::join
split_calls == {p \in DOMAIN builds : builds[p].pc \in {"join", "done", "joined"}
                                      /\ Len(builds[p].list) \notin {1, 2}}

\* The split index of a slice of three or more primitives lies strictly
\* inside the slice, is the middle index when the centres leave every
\* primitive on one side, and each closure got a non-empty, shorter list
C21_SplitInsideSlice ==
    \A p \in split_calls :
        LET list == builds[p].list
            mid == builds[p].mid
            axis == most_spread_axis(list)
            c == first_not_left(list, bounding_box_spread(list, axis).center, axis)
        IN /\ Len(list) >= 3
           /\ 0 < mid /\ mid < Len(list)
           /\ (c = 0 \/ c = Len(list)) => mid = Len(list) \div 2
           /\ Len(builds[Append(p, 1)].list) >= 1
           /\ Len(builds[Append(p, 1)].list) < Len(list)
           /\ Len(builds[Append(p, 2)].list) >= 1
           /\ Len(builds[Append(p, 2)].list) < Len(list)

\* A call of new_bvh gets its node only in a step that finds both of its
\* closures returned
C21_NodeAfterBothClosures ==
    \A p \in DOMAIN builds :
        (builds[p].pc = "join" /\ builds'[p].pc # "join") =>
            /\ builds[Append(p, 1)].pc = "done"
            /\ builds[Append(p, 2)].pc = "done"

\* A bound on the steps a call of new_bvh still takes: 5 len - 3 before it
\* starts, 2 while it waits in rayon::join, 1 while the first call's
\* result waits to be returned
call_steps_left(p) ==
    IF builds[p].pc = "start" THEN 5 * Len(builds[p].list) - 3
    ELSE IF builds[p].pc = "join" THEN 2
    ELSE IF builds[p].pc = "done" /\ p = <<>> THEN 1
    ELSE 0

RECURSIVE sum_steps_left(_)
sum_steps_left(calls) ==
    IF calls = {} THEN 0
    ELSE LET p == CHOOSE q \in calls : TRUE
         IN call_steps_left(p) + sum_steps_left(calls \ {p})

\* A bound on the steps Bvh::new still takes
build_steps_left ==
    IF bvh_result # None THEN 0
    ELSE IF builds = <<>> THEN (IF Len(bvh_list) = 0 THEN 1 ELSE 5 * Len(bvh_list) - 2)
    ELSE sum_steps_left(DOMAIN builds)

\* Until Bvh::new has returned, some call can take a step
C21_SomeCallCanStep ==
    bvh_result = None =>
        \/ builds = <<>>
        \/ \E p \in DOMAIN builds :
              \/ builds[p].pc = "start"
              \/ /\ builds[p].pc = "join"
                 /\ builds[Append(p, 1)].pc = "done"
                 /\ builds[Append(p, 2)].pc = "done"
              \/ builds[p].pc = "done" /\ p = <<>>

\* C21: Bvh::new terminates for every input: for every slice of three or
\* more primitives the split index satisfies 0 < mid < len (the middle
\* index when all centres fall on one side), so each sub-build receives at
\* least one and strictly fewer primitives, and both sub-builds are joined
\* before the parent node is created; every step lowers a bound on the
\* steps that are left, and a step is possible until Bvh::new has returned.
C21_ConstructionTerminates ==
    /\ [](C21_SplitInsideSlice /\ C21_SomeCallCanStep /\ build_steps_left >= 0)
    /\ [][C21_NodeAfterBothClosures /\ build_steps_left' < build_steps_left]_vars

\* Bvh::new returned for four primitives whose left closure got three
\* primitives with one centre, split at the middle index
C21_Witness ==
    /\ bvh_result # None
    /\ Len(bvh_list) = 4
    /\ <<1>> \in split_calls
    /\ Len(builds[<<1>>].list) = 3
    /\ bounding_box_spread(builds[<<1>>].list, most_spread_axis(builds[<<1>>].list)).spread = 0
    /\ builds[<<1>>].mid = 1

\* The primitives at the leaves of a tree, from left to right
RECURSIVE bvh_leaves(_)
bvh_leaves(item) ==
    IF item.kind = "Node" THEN bvh_leaves(item.left) \o bvh_leaves(item.right)
    ELSE IF item.kind = "Leaf" THEN <<item.hittable>>
    ELSE <<>>

\* How often h occurs in the list
occurrences(h, list) == Cardinality({i \in 1..Len(list) : list[i] = h})

\* The tree Bvh::new returned holds every primitive of the input as often
\* as the input does, and is a tree the calls one after the other build
C30_LeavesAreTheInput ==
    (bvh_result # None /\ Len(bvh_list) > 0) =>
        /\ \A h \in BvhPrimitives :
              occurrences(h, bvh_leaves(bvh_result[1].bvh)) = occurrences(h, bvh_list)
        /\ Len(bvh_leaves(bvh_result[1].bvh)) = Len(bvh_list)
        /\ bvh_result[1].bvh \in new_bvh(bvh_list)

\* The split of a call sorts its slice, and the lists of its two closures
\* are the slice cut in two
C30_HalvesPartitionSlice ==
    \A p \in DOMAIN builds :
        (builds[p].pc = "start" /\ builds'[p].pc = "join") =>
            /\ \A h \in BvhPrimitives :
                  occurrences(h, builds'[p].list) = occurrences(h, builds[p].list)
            /\ builds'[Append(p, 1)].list \o builds'[Append(p, 2)].list = builds'[p].list
            /\ Len(builds'[Append(p, 1)].list) = builds'[p].mid

\* C30: Bvh::new neither loses nor duplicates primitives: the leaves of the
\* tree are the input as a multiset, at every recursion list[..mid] and
\* list[mid..] partition the slice, and the tree is one the sub-builds run
\* one after the other give, however the two closures of a join interleave.
C30_NothingLostOrDoubled ==
    /\ []C30_LeavesAreTheInput
    /\ [][C30_HalvesPartitionSlice]_vars

\* Bvh::new returned for four primitives, one of them twice in the input,
\* after two joins
C30_Witness ==
    /\ bvh_result # None
    /\ Len(bvh_list) = 4
    /\ \E h \in BvhPrimitives : occurrences(h, bvh_list) = 2
    /\ Cardinality(split_calls) = 2
    /\ Len(bvh_leaves(bvh_result[1].bvh)) = 4

\* render returns Ok(()) from inside the sample loop
cancelled_step ==
    pc # "done" /\ pc' = "done" /\ result' = "Ok" /\ sample <= samples_per_pixel

\* The two places render looks at the abort channel: before a sample, and
\* before the post processors of a sample whose image is due
polls_abort_step ==
    \/ pc = "poll" /\ pc' # pc /\ sample <= samples_per_pixel
    \/ /\ pc = "scope" /\ pc' # pc
       /\ Len(scene.render_config.post_processors) > 0
       /\ \/ scene.render_config.render_image_strategy.kind = "EverySample"
          \/ sample = samples_per_pixel
          \/ /\ scene.render_config.render_image_strategy.kind = "Interval"
             /\ since_last_image' > scene.render_config.render_image_strategy.d

\* C25: cancellation is triggered by any message on the abort channel,
\* whatever its boolean value: where render looks at the channel, a waiting
\* message of either value makes it return Ok(()), with the sender alive or
\* dropped; a channel with no message, its sender alive or dropped, never
\* cancels the render.
C25_AnyMessageCancels ==
    [][/\ (polls_abort_step /\ Len(abort_queue) > 0) =>
              cancelled_step /\ abort_queue' = Tail(abort_queue)
       /\ cancelled_step => Len(abort_queue) > 0 /\ polls_abort_step
       /\ (abort_queue = <<>> /\ pc # "done" /\ pc' = "done" /\ result' = "Ok") =>
              pc = "poll" /\ sample > samples_per_pixel]_vars

\* render returned before its first sample on the one message that was
\* sent, after the sender was dropped
C25_Witness ==
    /\ pc = "done" /\ result = "Ok"
    /\ sample = 1 /\ samples_per_pixel >= 1
    /\ aborts_sent = 1 /\ abort_queue = <<>> /\ ~abort_sender_alive
    /\ output = <<>>

\* The image strategy asks for an image of the sample whose rows have just
\* merged
image_due_step ==
    \/ scene.render_config.render_image_strategy.kind = "EverySample"
    \/ sample = samples_per_pixel
    \/ /\ scene.render_config.render_image_strategy.kind = "Interval"
       /\ since_last_image' > scene.render_config.render_image_strategy.d

\* C26: when an image is due for sample k and an abort message waits once
\* the rows of sample k have all merged, render returns Ok(()) before any
\* post processor runs and without sending the RenderProgress of sample k;
\* when no image is due for sample k, the channel is left alone, the
\* RenderProgress of sample k is sent, and the message is taken before
\* sample k + 1 starts.
C26_CancelDiscardsDueSample ==
    [][/\ (pc = "scope" /\ pc' # pc /\ image_due_step /\ Len(abort_queue) > 0) =>
              /\ pc' = "done" /\ result' = "Ok"
              /\ \A y \in RowIds : merged[y] = sample
              /\ Len(output) = sample - 1
              /\ UNCHANGED <<output, post_calls, render_image>>
       /\ (pc = "scope" /\ pc' # pc /\ ~image_due_step) =>
              /\ pc' = "send"
              /\ render_image' = None
              /\ UNCHANGED <<abort_queue, output, post_calls>>
       /\ (pc = "send" /\ pc' # pc /\ receiver_alive) =>
              /\ output' = Append(output, [sample |-> sample,
                                           samples_per_pixel |-> samples_per_pixel,
                                           render_image |-> render_image])
              /\ abort_queue' = abort_queue
              /\ pc' = "poll" /\ sample' = sample + 1
       /\ (pc = "poll" /\ pc' # pc /\ sample <= samples_per_pixel /\ Len(abort_queue) > 0) =>
              /\ pc' = "done" /\ result' = "Ok"
              /\ Len(output) = sample - 1
              /\ UNCHANGED <<output, rows, merged>>
       /\ pc = "done" => output' = output]_vars

\* The rows of the last sample merged, and render returned on the abort
\* message without its image and without its RenderProgress
C26_Witness ==
    /\ pc = "done" /\ result = "Ok"
    /\ samples_per_pixel = 2 /\ sample = 2
    /\ \A y \in RowIds : merged[y] = 2
    /\ Len(output) = 1
    /\ output[1].render_image = None
    /\ post_calls = <<>>
    /\ aborts_sent = 1 /\ abort_queue = <<>>

\* C27: if the consumer has dropped the output receiver, the first attempt
\* to send a RenderProgress fails and render, and with it ray_trace, returns
\* that error at once: no later sample pass is started and nothing more is
\* sent.
C27_SendErrorEndsRender ==
    /\ [][(pc = "send" /\ pc' # pc /\ ~receiver_alive) =>
              /\ pc' = "done" /\ result' = "SendError"
              /\ UNCHANGED <<output, sample, rows, merged, pixel_colors>>]_vars
    /\ [][result = "SendError" =>
              /\ pc = "done"
              /\ UNCHANGED <<pc, result, output, sample, rows, merged, pixel_colors>>]_vars

\* The receiver was dropped after the first RenderProgress; the send of the
\* second sample failed and no third sample was started
C27_Witness ==
    /\ pc = "done" /\ result = "SendError" /\ ~receiver_alive
    /\ samples_per_pixel > sample
    /\ Len(output) = sample - 1
    /\ \A y \in RowIds : merged[y] = sample

\* C28: a render with samples_per_pixel = 0 returns Ok(()) without
\* spawning a row task, without taking a message from the abort channel and
\* without sending a RenderProgress, so the consumer receives nothing.
C28_ZeroSamplesReturnOk ==
    /\ [](samples_per_pixel = 0 =>
              /\ output = <<>> /\ received = 0
              /\ \A y \in RowIds : rows[y].pc = "idle" /\ merged[y] = 0
              /\ pc \in {"new", "render", "poll", "done"}
              /\ (pc = "done" /\ result # "Scene should have at least one light") =>
                    result = "Ok")
    /\ [][samples_per_pixel = 0 =>
              /\ Len(abort_queue') >= Len(abort_queue)
              /\ (pc = "poll" /\ pc' # pc) =>
                    pc' = "done" /\ result' = "Ok" /\ abort_queue' = abort_queue]_vars

\* render of no samples returned Ok and left the waiting abort message in
\* the channel
C28_Witness ==
    /\ samples_per_pixel = 0
    /\ pc = "done" /\ result = "Ok"
    /\ Len(abort_queue) = 1
    /\ output = <<>>
    /\ \A y \in RowIds : rows[y].pc = "idle"

\* The primitives an expression names outside every ConstantMedium whose
\* material is a DiffuseLight, in the order written
RECURSIVE described_lights(_)
RECURSIVE described_lights_all(_)
described_lights(d) ==
    IF d.kind = "ConstantMedium::new" THEN <<>>
    ELSE IF d.kind \in {"HittableList::new", "Bvh::new"} THEN described_lights_all(d.arguments)
    ELSE IF d.mat.kind = "DiffuseLight" THEN <<d>> ELSE <<>>

described_lights_all(ds) ==
    IF ds = <<>> THEN <<>>
    ELSE described_lights(Head(ds)) \o described_lights_all(Tail(ds))

\* C29: the light list of the Renderer is exactly the Sphere, Quad and
\* Triangle primitives with a DiffuseLight material that the world reaches
\* through any nesting of Bvh and HittableList; primitives inside a
\* ConstantMedium and primitives with a Blend material are not counted, and
\* a world whose only emitters are of those kinds is refused by a shader
\* that needs a light.
C29_LightsAreReachableEmitters ==
    light_list # None =>
        LET owed == described_lights(world_root[1].description)
        IN /\ Len(light_list[1]) = Len(owed)
           /\ \A h \in LightPrimitives :
                 occurrences(h, light_list[1]) = occurrences(h, owed)
           /\ (owed = <<>> /\ scene.render_config.shader = "PathTracing") =>
                 pc = "done" /\ result = "Scene should have at least one light"
           /\ (owed # <<>> \/ scene.render_config.shader # "PathTracing") => pc = "render"

\* A list of a Bvh and a medium: the Bvh's emitting sphere is the one
\* light, the blending quad beside it and the emitting triangle inside the
\* medium are not counted
C29_Witness ==
    /\ light_list # None
    /\ world_root[1].description.kind = "HittableList::new"
    /\ Len(world_root[1].description.arguments) = 2
    /\ world_root[1].description.arguments[1].kind = "Bvh::new"
    /\ Len(world_root[1].description.arguments[1].arguments) = 2
    /\ world_root[1].description.arguments[1].arguments[1].kind = "Sphere"
    /\ world_root[1].description.arguments[1].arguments[1].mat.kind = "DiffuseLight"
    /\ world_root[1].description.arguments[1].arguments[2].mat.kind = "Blend"
    /\ world_root[1].description.arguments[2].kind = "ConstantMedium::new"
    /\ world_root[1].description.arguments[2].arguments[1].kind = "Triangle"
    /\ light_list[1] = <<world_root[1].description.arguments[1].arguments[1]>>

\* C24: for a scene with no emissive primitive and a shader whose
\* needs_light() is false, Renderer::new succeeds and render completes every
\* sample pass and returns Ok without panicking.
C24_NoLightRenderReturnsOk ==
    (Len(get_lights(scene.world)) = 0 /\ ~needs_light(scene.render_config.shader)) =>
        /\ result \in {"none", "Ok"}
        /\ \A y \in RowIds : rows[y].pc # "panicked"
        /\ pc = "done" => result = "Ok" /\ Len(output) = samples_per_pixel

\* C2: Bvh::new fails with an error value exactly when the list of
\* primitives is empty, and builds a tree for every other list.
C2_EmptyListIsAnError ==
    bvh_result # None => (bvh_result[1].ok <=> Len(bvh_list) > 0)

====
